---- MODULE Spec2Model ----
(***************************************************************************)
(* Verification model of the emailagent repository.                        *)
(*                                                                         *)
(*   SpecAgent      EmailAgent.run, the batch pipeline of email_agent.py   *)
(*   SpecGraph      the interactive LangGraph of app/graph/graph.py        *)
(*   SpecSendEmail  direct calls of app/gmail/send.py send_email           *)
(*   SpecLLM        every code path that hands text to a language model    *)
(*                                                                         *)
(* Python None is the empty sequence << >>, an optional object is a        *)
(* sequence of length 0 or 1, a list is a sequence, processing notes are   *)
(* kept as the set of their texts.                                         *)
(***************************************************************************)
EXTENDS Integers, Sequences, FiniteSets, TLC

\* Largest number of messages the mailbox returns for one batch.
MaxBatch == 2

None == << >>

(***************************************************************************)
(* Addresses and domains                                                   *)
(***************************************************************************)
InternalSender == "alice@corp.example"
ExternalSender == "bob@partner.example"
Senders == {InternalSender, ExternalSender}

\* Config.ALLOWED_DOMAINS of the batch agent (config.py is not in src/).
ALLOWED_DOMAINS == {"corp.example"}

\* Ten addresses of the staff and four of partners, for long recipient lists.
StaffList ==
    <<"alice@corp.example", "hr@corp.example", "it@corp.example", "ops@corp.example",
      "pm@corp.example", "qa@corp.example", "dev@corp.example", "cfo@corp.example",
      "ceo@corp.example", "legal@corp.example">>

PartnerList ==
    <<"bob@partner.example", "dave@partner.example", "erin@vendor.example",
      "frank@client.example">>

\* ReplyAllHandler._extract_domain: the part after '@', lower-cased; "" when
\* the address holds no '@'.
extract_domain(address) ==
    CASE address \in {StaffList[i] : i \in DOMAIN StaffList} -> "corp.example"
      [] address = "alice@corp.example"  -> "corp.example"
      [] address = "carol@Corp.Example"  -> "corp.example"
      [] address = "bob@partner.example" -> "partner.example"
      [] address = "dave@partner.example" -> "partner.example"
      [] address = "erin@vendor.example" -> "vendor.example"
      [] address = "frank@client.example" -> "client.example"
      [] address = "gina@client.example" -> "client.example"
      [] OTHER -> ""

\* ReplyAllHandler._is_internal_domain
is_internal_domain(domain) ==
    IF domain = "" THEN FALSE ELSE domain \in ALLOWED_DOMAINS

\* ReplyAllHandler._get_external_recipients (a set of addresses)
get_external_recipients(recipients) ==
    {recipients[i] : i \in {j \in 1..Len(recipients) :
                              ~is_internal_domain(extract_domain(recipients[j]))}}

\* ReplyAllHandler._get_internal_recipients (a set of addresses)
get_internal_recipients(recipients) ==
    {recipients[i] : i \in {j \in 1..Len(recipients) :
                              is_internal_domain(extract_domain(recipients[j]))}}

(***************************************************************************)
(* Messages a mailbox can hold.  A message is described by its sender and  *)
(* by what its text contains; the classifiers read only these.             *)
(***************************************************************************)
\* The priority scores followed: one below every threshold of the agent, one
\* from 70, one from 80 and one from 90.
Scores == {50, 75, 85, 95}

\* is_vip is what the sender classifier finds, score what the priority
\* scorer computes, meeting a request for a meeting (the primary intent).
Contents ==
    {c \in [spam_pattern : BOOLEAN, asks_action : BOOLEAN, asks_question : BOOLEAN,
            legal_terms : BOOLEAN, finance_terms : BOOLEAN, meeting : BOOLEAN,
            body_pii : BOOLEAN, is_vip : BOOLEAN, score : Scores] :
        /\ c.spam_pattern => (~c.asks_action /\ ~c.asks_question)
        /\ c.asks_question => ~c.asks_action
        /\ c.legal_terms => (c.asks_action /\ ~c.finance_terms /\ ~c.meeting /\ ~c.is_vip)
        /\ c.finance_terms => (c.asks_action /\ ~c.meeting /\ ~c.body_pii
                                 /\ ~c.is_vip /\ c.score = 95)
        /\ c.meeting => (c.asks_action /\ ~c.body_pii /\ ~c.is_vip /\ c.score = 50)
        /\ c.is_vip => (c.asks_action /\ ~c.body_pii /\ c.score \in {50, 95})
        /\ c.score # 50 => (c.asks_action /\ ~c.body_pii)}

Messages == {[sender |-> s, content |-> c] : s \in Senders, c \in Contents}

\* The messages of the batches of two: no VIP sender, a score of 50 or 95.
BatchMessages == {m \in Messages : ~m.content.is_vip /\ m.content.score \in {50, 95}}

\* Every inbox listing of at most MaxBatch messages.
Inboxes == UNION {[1..n -> BatchMessages] : n \in 0..MaxBatch}

\* What the drafting model can answer: nothing usable (disabled, error, empty
\* text), or a text holding a forbidden commitment ("we guarantee").
LLMOutcomes == {"unavailable", "commitment"}

\* The scopes the mailbox capability can grant.
ScopeSets == {{"read", "compose", "send"}, {"read", "compose"}, {"read"}}

VARIABLES
    \* ---- EmailAgent.run ----
    pc,                 \* position of run()
    inbox,              \* messages the mailbox holds, in listing order
    newest_first,       \* whether the listing is newest first
    scopes,             \* scopes granted to the mailbox client
    llm,                \* what Gemini answered for each email (None before drafting)
    operating_context,  \* EmailAgent.operating_context
    emails,             \* the local list 'emails' of run(): every ProcessedEmail
    batch_emails,       \* batch.emails, as indexes into 'emails'
    batch_errors,       \* batch.errors
    fault,              \* the exception raised inside run(), if any
    response,           \* the value run() returns (None while running)
    slack_client,       \* EmailAgent.slack_client (None when Slack is not enabled)
    notion_client,      \* EmailAgent.notion_client (None when Notion is not enabled)
    notifications       \* the Slack and Notion calls made, and how each ended

VARIABLES
    \* ---- the interactive graph ----
    node,               \* the node that runs next ("END" and "crashed" are final)
    prev_node,          \* the node that ran last
    state,              \* the EmailAgentState dictionary handed from node to node
    reviewed,           \* what the last review_node showed and what the user chose
    last_send,          \* the last execution of send_node
    send_count,         \* executions of send_node in this run
    memory_search,      \* the memory store memory_retrieve_node searched in this run
    \* ---- the mailbox ----
    mailbox,            \* messages handed to service.users().messages().send
    send_log,           \* direct calls of send_email and how each ended
    \* ---- language-model endpoints ----
    llm_requests        \* every text sent to a language-model endpoint

VARIABLES
    \* ---- components called on their own ----
    drafter,            \* the ReplyDrafter object (None before construction)
    drafted,            \* the last call of ReplyDrafter.draft_reply
    risk_checked,       \* the last call of ReplyAllHandler.block_if_risky
    clock,              \* the wall clock, in hours
    scoring_input,      \* an EmailMetadata and the ClassificationResult of its sender
    scored,             \* the last run of IntentScanner.scan and calculate_score
    llm_answer          \* the last call of call_llm by draft_node on its own

agentVars == <<pc, inbox, newest_first, scopes, llm, operating_context,
               emails, batch_emails, batch_errors, fault, response,
               slack_client, notion_client, notifications>>

graphVars == <<node, prev_node, state, reviewed, last_send, send_count, memory_search>>

scoreVars == <<clock, scoring_input, scored>>

fnVars == <<drafter, drafted, risk_checked, scoreVars, llm_answer>>

vars == <<agentVars, graphVars, mailbox, send_log, llm_requests, fnVars>>

\* The graph before main.py invokes it.
GraphIdle ==
    /\ node = "idle"
    /\ prev_node = "none"
    /\ state = << >>
    /\ reviewed = << >>
    /\ last_send = << >>
    /\ send_count = 0
    /\ memory_search = << >>

\* No component has been constructed or called on its own.
FnIdle ==
    /\ drafter = << >>
    /\ drafted = << >>
    /\ risk_checked = << >>
    /\ clock = 0
    /\ scoring_input = << >>
    /\ scored = << >>
    /\ llm_answer = << >>

(***************************************************************************)
(* Sequence helpers                                                        *)
(***************************************************************************)
Range(seq) == {seq[i] : i \in 1..Len(seq)}

\* The list seq with every element of the index set I replaced by f applied to it.
MapAt(seq, I, f(_)) == [i \in 1..Len(seq) |-> IF i \in I THEN f(seq[i]) ELSE seq[i]]

(***************************************************************************)
(* EmailAgent: the per-email stages                                        *)
(***************************************************************************)

\* _data_ingestion / extract_metadata: the metadata of the i-th listed message.
\* Dates are distinct; the listing is by date, ascending or descending.
Metadata(box, i, newestFirst) ==
    [message_id |-> i,
     sender     |-> box[i].sender,
     date       |-> IF newestFirst THEN Len(box) + 1 - i ELSE i,
     content    |-> box[i].content]

\* The intent of an email no detector has looked at yet.
NoIntent ==
    [action_required |-> FALSE, question_detected |-> FALSE, legal |-> FALSE,
     finance |-> FALSE, primary_intent |-> "default"]

\* _create_processed_email, with the defaults of ProcessedEmail.
create_processed_email(metadata) ==
    [metadata         |-> metadata,
     status           |-> "PENDING",
     intent           |-> NoIntent,
     classification   |-> None,
     priority         |-> None,
     category         |-> "unset",
     is_spam          |-> FALSE,
     is_blocked       |-> FALSE,
     requires_reply   |-> FALSE,
     has_pii          |-> FALSE,
     draft_reply      |-> None,
     security_flags   |-> << >>,
     processing_notes |-> {}]

\* IntentDetector.detect: the flags the pipeline reads.
detect(metadata) ==
    [action_required   |-> metadata.content.asks_action,
     question_detected |-> metadata.content.asks_question,
     legal             |-> metadata.content.legal_terms,
     finance           |-> metadata.content.finance_terms,
     primary_intent    |-> IF metadata.content.meeting THEN "meeting" ELSE "default"]

\* SenderClassifier.classify: the field of the ClassificationResult the
\* pipeline reads.
classify(metadata) == [is_vip |-> metadata.content.is_vip]

\* PriorityScorer.calculate_score of the batch agent: the score.
core_calculate_score(metadata) == [score |-> metadata.content.score]

\* SpamFilter.is_spam
is_spam(metadata) == metadata.content.spam_pattern

\* EmailCategorizer.categorize: spam overrides all, then legal, finance,
\* meeting, action.
categorize(intent, spam) ==
    IF spam THEN "spam"
    ELSE IF intent.legal THEN "legal"
    ELSE IF intent.finance THEN "finance"
    ELSE IF intent.primary_intent = "meeting" THEN "meeting"
    ELSE IF intent.action_required THEN "action"
    ELSE "informational"

\* _process_email_core_pipeline up to the first classifier call: the status is
\* set before anything can raise.
begin_core_pipeline(email) == [email EXCEPT !.status = "PROCESSING"]

\* _process_email_core_pipeline
process_email_core_pipeline(email) ==
    LET intent == detect(email.metadata)
        spam   == is_spam(email.metadata)
        cat    == categorize(intent, spam)
        e1     == [email EXCEPT !.status = "PROCESSING",
                                !.classification = <<classify(email.metadata)>>,
                                !.intent = intent,
                                !.priority = <<core_calculate_score(email.metadata)>>,
                                !.is_spam = spam,
                                !.category = cat]
    IN  IF spam
        THEN [e1 EXCEPT !.processing_notes = @ \cup {"Marked as SPAM by spam filter"},
                        !.is_blocked = TRUE,
                        !.status = "BLOCKED"]
        ELSE LET reply == intent.action_required \/ intent.question_detected
                          \/ cat = "action"
             IN [e1 EXCEPT !.requires_reply = reply,
                           !.processing_notes = @ \cup
                               {IF reply THEN "Marked as requiring a reply"
                                         ELSE "No reply required"}]

\* The collaborators _process_email_core_pipeline calls for the email, all
\* outside any try, in the order of the calls (lines 259, 278, 299, 323, 324,
\* 340): mark_as_blocked is called for spam only.
CoreRaisePoints(email) ==
    {"classify", "detect", "calculate_score", "is_spam", "categorize"}
        \cup (IF is_spam(email.metadata) THEN {"mark_as_blocked"} ELSE {})

\* _process_email_core_pipeline when the collaborator 'at' raises: the email
\* keeps what was written before the call.
core_pipeline_until(email, at) ==
    LET intent == detect(email.metadata)
        spam   == is_spam(email.metadata)
        e0 == begin_core_pipeline(email)
        e1 == [e0 EXCEPT !.classification = <<classify(email.metadata)>>]
        e2 == [e1 EXCEPT !.intent = intent]
        e3 == [e2 EXCEPT !.priority = <<core_calculate_score(email.metadata)>>]
        e4 == [e3 EXCEPT !.is_spam = spam]
        e5 == [e4 EXCEPT !.category = categorize(intent, spam),
                         !.processing_notes = @ \cup {"Marked as SPAM by spam filter"}]
    IN CASE at = "classify"        -> e0
         [] at = "detect"          -> e1
         [] at = "calculate_score" -> e2
         [] at = "is_spam"         -> e3
         [] at = "categorize"      -> e4
         [] at = "mark_as_blocked" -> e5

(***************************************************************************)
(* Reply-all risk (edge_cases/reply_all_handler.py)                        *)
(***************************************************************************)
max_recipients_warning == 5
max_external_recipients == 3

SecurityFlag(type, severity, blocks) ==
    [flag_type |-> type, severity |-> severity, blocks_sending |-> blocks]

has_flag(email, type) ==
    \E i \in 1..Len(email.security_flags) : email.security_flags[i].flag_type = type

\* The risk level of a draft with factor 5 (PII) left out: external
\* recipients alone give medium, a sensitive category gives high.
analyze_reply_all_risk_without_pii(email) ==
    IF email.draft_reply = None THEN "none"
    ELSE
    LET all_recipients == email.draft_reply[1].recipients \o email.draft_reply[1].cc
        n_ext == Cardinality(get_external_recipients(all_recipients))
    IN  IF email.category \in {"legal", "finance"} /\ n_ext > 0 THEN "high"
        ELSE IF n_ext > 0 THEN "medium"
        ELSE "none"

\* ReplyAllHandler.analyze_reply_all_risk, lines 97-136: the risk level at
\* the start and after each of the five factors, applied in the order of the
\* code, each to the level the previous one left.
reply_all_risk_levels(email) ==
    LET draft == email.draft_reply[1]
        all_recipients == draft.recipients \o draft.cc
        n_all == Len(all_recipients)
        n_ext == Cardinality(get_external_recipients(all_recipients))
        n_int == Cardinality(get_internal_recipients(all_recipients))
        l0 == "none"
        \* Factor 1: total recipient count
        l1 == IF n_all > 10 THEN "high"
              ELSE IF n_all > max_recipients_warning
                   THEN (IF l0 = "none" THEN "medium" ELSE l0)
                   ELSE l0
        \* Factor 2: external recipients
        l2 == IF n_ext > max_external_recipients THEN "high"
              ELSE IF n_ext > 0
                   THEN (IF l1 = "none" THEN "medium" ELSE l1)
                   ELSE l1
        \* Factor 3: mixed audiences
        l3 == IF n_int > 0 /\ n_ext > 0
              THEN (IF n_ext > 2 THEN "high" ELSE "medium")
              ELSE l2
        \* Factor 4: sensitive categories
        l4 == IF email.category \in {"legal", "finance"} /\ n_ext > 0
              THEN "high" ELSE l3
        \* Factor 5: PII
        l5 == IF has_flag(email, "pii_detected") /\ n_ext > 0
              THEN "critical" ELSE l4
    IN <<l0, l1, l2, l3, l4, l5>>

\* ReplyAllHandler.analyze_reply_all_risk: the risk level returned.
analyze_reply_all_risk(email) ==
    IF email.draft_reply = None THEN "none"
    ELSE reply_all_risk_levels(email)[6]

\* The blocking branch with the assignment is_blocked = True left out.
block_risky_flag_only(email, level) ==
    [email EXCEPT !.security_flags = Append(@, SecurityFlag("reply_all_risk", level, TRUE)),
                  !.draft_reply = IF @ = None THEN @
                                  ELSE <<[@[1] EXCEPT !.requires_approval = TRUE]>>]

\* The branch of block_if_risky taken for high and critical risk.
block_risky(email, level) ==
    [email EXCEPT !.security_flags = Append(@, SecurityFlag("reply_all_risk", level, TRUE)),
                  !.is_blocked = TRUE,
                  !.draft_reply = IF @ = None THEN @
                                  ELSE <<[@[1] EXCEPT !.requires_approval = TRUE]>>]

\* ReplyAllHandler.block_if_risky
block_if_risky(email) ==
    LET level == analyze_reply_all_risk(email)
    IN  IF level \in {"high", "critical"} THEN block_risky(email, level)
        ELSE IF level = "medium"
        THEN [email EXCEPT
                !.security_flags = Append(@, SecurityFlag("reply_all_warning", "medium", FALSE)),
                !.draft_reply = IF @ = None THEN @
                                ELSE <<[@[1] EXCEPT !.requires_approval = TRUE]>>]
        ELSE email

(***************************************************************************)
(* Edge cases (email_agent.py _handle_edge_cases)                          *)
(***************************************************************************)

\* ConflictResolver.check_multiple_from_same_sender: the senders with two or
\* more emails in the batch.  es is the list of emails, b the batch (indexes).
check_multiple_from_same_sender(es, b) ==
    {s \in Senders :
        Cardinality({i \in 1..Len(b) : es[b[i]].metadata.sender = s}) >= 2}

\* The most recent email (by date) of sender s in the batch.
most_recent(es, b, s) ==
    CHOOSE k \in Range(b) :
        /\ es[k].metadata.sender = s
        /\ \A j \in Range(b) : es[j].metadata.sender = s
                                => es[j].metadata.date <= es[k].metadata.date

RECURSIVE resolve_from(_, _, _, _)
\* ConflictResolver.resolve_conflicts: one email per conflicting sender, the
\* senders in the order of their first email in the batch.
resolve_from(es, b, conflicts, i) ==
    IF i > Len(b) THEN << >>
    ELSE LET s == es[b[i]].metadata.sender
             first == \A j \in 1..(i - 1) : es[b[j]].metadata.sender # s
         IN  (IF s \in conflicts /\ first THEN <<most_recent(es, b, s)>> ELSE << >>)
             \o resolve_from(es, b, conflicts, i + 1)

resolve_conflicts(es, b, conflicts) == resolve_from(es, b, conflicts, 1)

\* Lines 364-383: the notes written and the batch rebuilt after conflict
\* resolution.  Result: [emails, batch].
rebuild_batch(b, non_conflict, active) == non_conflict \o active

resolve_sender_conflicts(es, b) ==
    LET conflicts == check_multiple_from_same_sender(es, b)
    IN  IF conflicts = {} THEN [emails |-> es, batch |-> b]
        ELSE
        LET active == resolve_conflicts(es, b, conflicts)
            active_ids == {es[active[i]].metadata.message_id : i \in 1..Len(active)}
            noted == {k \in Range(b) : es[k].metadata.message_id \notin active_ids}
            es1 == [k \in 1..Len(es) |->
                      IF k \in noted
                      THEN [es[k] EXCEPT !.processing_notes = @ \cup
                               {"Superseded by a newer email from the same sender"}]
                      ELSE es[k]]
            IsNonConflict(k) == es[k].metadata.sender \notin conflicts
            non_conflict == SelectSeq(b, IsNonConflict)
        IN [emails |-> es1, batch |-> rebuild_batch(b, non_conflict, active)]

\* LegalFinanceDetector.check_legal_finance_content_urgent: a legal or
\* financial intent and a priority of HIGH (70) or more.
check_legal_finance_content_urgent(email) ==
    /\ email.intent.legal \/ email.intent.finance
    /\ email.priority # None /\ email.priority[1].score >= 70

\* LegalFinanceDetector.block_auto_reply_and_escalate
block_auto_reply_and_escalate(email) ==
    LET type == IF email.intent.legal THEN "legal_content" ELSE "finance_content"
    IN [email EXCEPT !.security_flags = Append(@, SecurityFlag(type, "high", TRUE)),
                     !.is_blocked = TRUE,
                     !.processing_notes = @ \cup {"Escalated: legal/finance content"}]

\* PermissionChecker.create_missing_context
create_missing_context(available_scopes) ==
    [can_send |-> "send" \in available_scopes,
     mode     |-> IF "send" \in available_scopes THEN "full" ELSE "draft_only"]

\* DNDHandler.check_tool_alert
check_tool_alert(can_send) == ~can_send

\* DNDHandler.force_draft_only_and_warn
force_draft_only_and_warn(email) ==
    [email EXCEPT !.processing_notes = @ \cup {"Draft-only mode: send scope missing"},
                  !.draft_reply = IF @ = None THEN @
                                  ELSE <<[@[1] EXCEPT !.requires_approval = TRUE]>>]

\* The hours of the do-not-disturb window: of the two hours a batch is
\* followed at, the second.
DND_WINDOW == {1}

\* DNDHandler.check_external_email_to_dnd: the wall clock is inside the
\* window and the reply would go to an external address.
check_external_email_to_dnd(email, now) ==
    now \in DND_WINDOW /\ ~is_internal_domain(extract_domain(email.metadata.sender))

\* DNDHandler.handle_dnd_decision: the draft is prepared but never approved
\* automatically.
handle_dnd_decision(email) ==
    [email EXCEPT !.processing_notes = @ \cup {"DND: draft held for approval"},
                  !.draft_reply = IF @ = None THEN @
                                  ELSE <<[@[1] EXCEPT !.requires_approval = TRUE]>>]

\* Lines 386-391 for one email.
legal_step(email) ==
    IF ~email.is_blocked /\ check_legal_finance_content_urgent(email)
    THEN block_auto_reply_and_escalate(email) ELSE email

\* Lines 396-401 for one email.
tool_alert_step(email, ctx) ==
    IF ~email.is_blocked /\ check_tool_alert(ctx.can_send)
    THEN force_draft_only_and_warn(email) ELSE email

\* The hours at which a batch is followed.
Hours == {0, 1}

\* Lines 403-406 for one email.
dnd_step(email, now) ==
    IF ~email.is_blocked /\ check_external_email_to_dnd(email, now)
    THEN handle_dnd_decision(email) ELSE email

\* _handle_edge_cases at the hour 'now'.  Result: [emails, batch].
handle_edge_cases(es, b, ctx, now) ==
    LET r == resolve_sender_conflicts(es, b)
        Step(e) == dnd_step(tool_alert_step(legal_step(e), ctx), now)
    IN [emails |-> MapAt(r.emails, Range(r.batch), Step), batch |-> r.batch]

(***************************************************************************)
(* Drafting (drafting/reply_drafter.py, email_agent.py _draft_replies)     *)
(***************************************************************************)

\* ReplyDrafter._generate_with_gemini: the text obtained, None when the
\* client is missing, the call raises or the answer is empty.
generate_with_gemini(outcome) ==
    IF outcome = "unavailable" THEN None ELSE <<outcome>>

\* ReplyDrafter._generate_template_response: the template of a meeting
\* ("I'll check my availability and get back to you shortly") or one of
\* the four others.
agent_template(intent) ==
    IF intent.primary_intent = "meeting" THEN "template_meeting" ELSE "template"

\* ReplyDrafter.draft_reply
draft_reply(metadata, intent, outcome) ==
    LET generated == generate_with_gemini(outcome)
        draft_body == IF generated = None THEN agent_template(intent) ELSE generated[1]
    IN [body              |-> draft_body,
        recipients        |-> <<metadata.sender>>,
        cc                |-> << >>,
        requires_approval |-> TRUE,
        draft_id          |-> None]

\* The draft holds one of the action words will, can, schedule, send,
\* provide, confirm: every template but the one of a meeting holds "will";
\* the commitment text ("We guarantee delivery.") holds none.
has_action_response(draft_body) == draft_body = "template"

\* The draft is shorter than 50 characters: no template is, the commitment
\* text is.
is_short(draft_body) == draft_body = "commitment"

\* ClarificationHandler._missing_critical_info: an action is required and
\* the draft holds none of the action words, or a question was asked and the
\* draft is shorter than 50 characters.
missing_critical_info(email) ==
    /\ email.draft_reply # None
    /\ \/ email.intent.action_required /\ ~has_action_response(email.draft_reply[1].body)
       \/ email.intent.question_detected /\ is_short(email.draft_reply[1].body)

\* ClarificationHandler.needs_clarification.  The senders of the model are
\* named addresses (not info@, support@, ...) and the draft goes to the
\* sender, so the recipients are never ambiguous; the intent is detected
\* with high confidence, so it is never unclear.
needs_clarification(email) ==
    email.draft_reply # None /\ missing_critical_info(email)

\* GmailClient.create_draft: a draft id, None without the compose scope.
create_draft(granted, message_id) ==
    IF "compose" \in granted THEN <<message_id>> ELSE None

\* _draft_replies, lines 414-421: the draft is attached to the email.
attach_draft(email, outcome) ==
    [email EXCEPT !.draft_reply = <<draft_reply(email.metadata, email.intent, outcome)>>]

\* _draft_replies
draft_replies(email, outcome, granted) ==
    IF ~email.requires_reply \/ email.is_blocked THEN email
    ELSE
    LET e1 == attach_draft(email, outcome)
        e2 == IF needs_clarification(e1)
              THEN [e1 EXCEPT !.draft_reply[1].requires_approval = TRUE,
                              !.status = "APPROVAL_REQUIRED"]
              ELSE e1
    IN [e2 EXCEPT !.draft_reply[1].draft_id =
                      create_draft(granted, email.metadata.message_id)]

\* Lines 155-157 for one email.
draft_step(email, outcome, granted) ==
    IF ~email.is_blocked THEN draft_replies(email, outcome, granted) ELSE email

\* The emails Gemini is asked about: those _draft_replies drafts.
is_drafted(email) == ~email.is_blocked /\ email.requires_reply

\* What Gemini can answer while the emails ks (indexes) are drafted: an
\* outcome for every email it is asked about.
BatchOutcomes(es, ks) ==
    {o \in [DOMAIN es -> LLMOutcomes \cup {"not called"}] :
        \A k \in DOMAIN es :
            o[k] = "not called" <=> ~(k \in ks /\ is_drafted(es[k]))}

\* Lines 155-157 for the emails ks (indexes), Gemini answering outcomes[k]
\* for the k-th email.
draft_steps(es, ks, outcomes, granted) ==
    [k \in 1..Len(es) |->
        IF k \in ks THEN draft_step(es[k], outcomes[k], granted) ELSE es[k]]

(***************************************************************************)
(* Guardrails (email_agent.py _apply_guardrails)                           *)
(***************************************************************************)

\* DomainChecker.is_external_email
is_external_email(email) ==
    ~is_internal_domain(extract_domain(email.metadata.sender))

\* PIIDetector.detect_pii_and_confidential: a hit records a pii_detected flag.
detect_pii_and_confidential(email) ==
    IF email.metadata.content.body_pii
    THEN [email EXCEPT !.security_flags = Append(@, SecurityFlag("pii_detected", "high", FALSE))]
    ELSE email

\* DomainChecker.check_domain_restrictions: an external recipient of a draft
\* on a sensitive category, or with a PII flag, records a flag that blocks
\* sending.
check_domain_restrictions(email) ==
    IF /\ email.draft_reply # None
       /\ get_external_recipients(email.draft_reply[1].recipients \o email.draft_reply[1].cc) # {}
       /\ (email.category \in {"legal", "finance"} \/ has_flag(email, "pii_detected"))
    THEN [email EXCEPT !.security_flags = Append(@, SecurityFlag("external_sender", "high", TRUE))]
    ELSE email

\* ToneEnforcer.enforce_safe_tone: a draft holding a forbidden token is rejected.
enforce_safe_tone(email) ==
    IF email.draft_reply # None /\ email.draft_reply[1].body = "commitment"
    THEN [email EXCEPT !.security_flags = Append(@, SecurityFlag("tone_violation", "medium", FALSE))]
    ELSE email

\* Lines 519-534: G4-G6, the status and the approval mark of the draft.
approval_decision(email) ==
    IF is_external_email(email) \/ Len(email.security_flags) > 0
    THEN [email EXCEPT
            !.status = "APPROVAL_REQUIRED",
            !.draft_reply = IF @ = None THEN @
                            ELSE <<[@[1] EXCEPT !.requires_approval = TRUE]>>,
            !.processing_notes = @ \cup
                {"Approval required due to external sender or high-risk security flags"}]
    ELSE [email EXCEPT
            !.status = "DRAFT_READY",
            !.draft_reply = IF @ = None THEN @
                            ELSE <<[@[1] EXCEPT !.requires_approval = FALSE]>>]

\* _apply_guardrails, lines 482-516: the email after G1 (PII), G2 (domain),
\* G3 (tone) and the reply-all check.
guardrail_steps(email) ==
    LET e1 == detect_pii_and_confidential(email)
        e2 == [e1 EXCEPT !.has_pii = @ \/ email.metadata.content.body_pii,
                         !.processing_notes = @ \cup
                            (IF email.metadata.content.body_pii THEN {"PII detected"} ELSE {})]
        e3 == check_domain_restrictions(e2)
        e4 == [e3 EXCEPT !.processing_notes = @ \cup
                  (IF Len(e3.security_flags) > Len(e2.security_flags)
                   THEN {"Domain restriction: external domain not approved for automatic action"}
                   ELSE {})]
        e5 == IF e4.draft_reply # None THEN enforce_safe_tone(e4) ELSE e4
        e6 == [e5 EXCEPT !.processing_notes = @ \cup
                  (IF Len(e5.security_flags) > Len(e4.security_flags)
                   THEN {"Tone issues found"} ELSE {})]
        e7 == IF e6.draft_reply # None THEN block_if_risky(e6) ELSE e6
    IN [pii |-> e2, domain |-> e4, tone |-> e6, reply_all |-> e7]

\* _apply_guardrails
apply_guardrails(email) == approval_decision(guardrail_steps(email).reply_all)

\* The collaborators _apply_guardrails calls for the email, all outside any
\* try (lines 482, 494, 503, 520): the tone is enforced on a draft only.
GuardrailRaisePoints(email) ==
    {"detect_pii_and_confidential", "check_domain_restrictions", "is_external_email"}
        \cup (IF email.draft_reply # None THEN {"enforce_safe_tone"} ELSE {})

\* _apply_guardrails when the collaborator 'at' raises: the email keeps the
\* flags and the notes written before the call.
apply_guardrails_until(email, at) ==
    CASE at = "detect_pii_and_confidential" -> email
      [] at = "check_domain_restrictions"   -> guardrail_steps(email).pii
      [] at = "enforce_safe_tone"           -> guardrail_steps(email).domain
      [] at = "is_external_email"           -> guardrail_steps(email).reply_all

(***************************************************************************)
(* The responses of run()                                                  *)
(***************************************************************************)

\* QueueBuilder.build_final_queue: the keys of the queue and its items.
build_final_queue(es, b) ==
    [keys  |-> {"queue.batch_id", "queue.summary", "queue.items", "queue.top_10_emails"},
     items |-> {es[k].metadata.message_id : k \in Range(b)}]

\* _generate_final_output: the keys of the response, nested keys dotted.
generate_final_output(es, b) ==
    LET queue == build_final_queue(es, b)
    IN [kind  |-> "final",
        keys  |-> {"queue", "metrics", "clarifications", "batch_info",
                   "batch_info.batch_id", "batch_info.started_at",
                   "batch_info.completed_at", "batch_info.command"} \cup queue.keys,
        items |-> queue.items]

\* _build_empty_response
build_empty_response ==
    [kind  |-> "empty",
     keys  |-> {"queue", "queue.batch_id", "queue.summary", "queue.message", "metrics"},
     items |-> {}]

\* _build_error_response
build_error_response ==
    [kind  |-> "error",
     keys  |-> {"error", "batch_id", "errors"},
     items |-> {}]

(***************************************************************************)
(* Chat and task-tracker calls (tools/slack_client.py,                     *)
(* tools/notion_client.py, email_agent.py _send_notifications,             *)
(* _log_to_notion and the clarification request of _draft_replies)         *)
(***************************************************************************)

\* What the remote API does with a call: it answers ok, it answers with
\* ok = false, or the call raises (transport error, API error).
APIOutcomes == {"ok", "not_ok", "raises"}

\* How the Slack API can behave at a call: as above, or chat_postMessage
\* raises SlackApiError with a response that holds no 'error' entry (the
\* body of the answer is no JSON: the response is the dict of status, headers
\* and body).
SlackOutcomes == APIOutcomes \cup {"raises_api_unparsed"}

\* The send_* methods of SlackClient: False when the client is not enabled,
\* response["ok"] when the call returns, False when anything raises.
\* send_urgent_alert alone has a clause for SlackApiError, which reads
\* e.response['error'] (line 125): on a response without that entry the
\* KeyError leaves the method.
SlackClient_send(self, method, api) ==
    IF ~self.enabled THEN [raised |-> FALSE, result |-> FALSE]
    ELSE [raised |-> method = "send_urgent_alert" /\ api = "raises_api_unparsed",
          result |-> api = "ok"]

\* Every log_* method of NotionClient: False when the client is not enabled,
\* True when pages.create returns, whatever it answers, False when anything
\* raises.
NotionClient_log(self, api) ==
    IF ~self.enabled THEN [raised |-> FALSE, result |-> FALSE]
    ELSE [raised |-> FALSE, result |-> api # "raises"]

\* How the remote API can behave at each of the calls 'calls' the agent
\* makes on a client; the agent makes none when the client is None or not
\* enabled.
APIAnswers(service, client, calls) ==
    IF client = None \/ ~client[1].enabled THEN {<< >>}
    ELSE [1..Len(calls) -> IF service = "slack" THEN SlackOutcomes ELSE APIOutcomes]

\* The calls 'calls' made one after the other on a client of EmailAgent,
\* the API behaving as apis[i] at the i-th call.  raised_at is the call that
\* raised (0 when none did); no call is made after it.  The log holds every
\* call made with what the method returned (False for the one that raised).
run_calls(service, client, calls, apis) ==
    IF client = None \/ ~client[1].enabled THEN [raised_at |-> 0, log |-> << >>]
    ELSE LET R(i) == IF service = "slack"
                     THEN SlackClient_send(client[1], calls[i].method, apis[i])
                     ELSE NotionClient_log(client[1], apis[i])
             raising == {i \in 1..Len(calls) : R(i).raised}
             stop == IF raising = {} THEN 0
                     ELSE CHOOSE i \in raising : \A j \in raising : i <= j
             made == IF stop = 0 THEN Len(calls) ELSE stop
         IN [raised_at |-> stop,
             log       |-> [i \in 1..made |->
                              [service    |-> service,
                               method     |-> calls[i].method,
                               message_id |-> calls[i].message_id,
                               api        |-> apis[i],
                               raised     |-> R(i).raised,
                               ok         |-> ~R(i).raised /\ R(i).result]]]

\* _draft_replies, lines 426-437: the clarification requests sent for the
\* emails ks (indexes), es being the emails after drafting.
clarification_calls(es, ks) ==
    LET asked == SelectSeq(ks, LAMBDA k : es[k].draft_reply # None
                                          /\ needs_clarification(es[k]))
    IN [i \in 1..Len(asked) |->
          [method |-> "send_clarification_request",
           message_id |-> es[asked[i]].metadata.message_id]]

\* email.priority and email.priority.score >= n
score_at_least(email, n) == email.priority # None /\ email.priority[1].score >= n

\* The escalations of an email: one call of 'method' for each of its flags
\* legal_content and finance_content, when its category is legal or finance.
escalated(email, method) ==
    IF email.category \in {"legal", "finance"}
    THEN LET flags == SelectSeq(email.security_flags,
                                LAMBDA f : f.flag_type \in {"legal_content",
                                                            "finance_content"})
         IN [i \in 1..Len(flags) |->
               [method |-> method, message_id |-> email.metadata.message_id]]
    ELSE << >>

RECURSIVE send_notifications_from(_, _, _)
\* _send_notifications: the calls it makes, email by email, then the batch
\* summary.
send_notifications_from(es, b, i) ==
    IF i > Len(b)
    THEN <<[method |-> "send_batch_summary", message_id |-> 0]>>
    ELSE LET email == es[b[i]]
             id == email.metadata.message_id
         IN (IF score_at_least(email, 90)
             THEN <<[method |-> "send_urgent_alert", message_id |-> id]>> ELSE << >>)
            \o (IF email.classification # None /\ email.classification[1].is_vip
                THEN <<[method |-> "send_vip_notification", message_id |-> id]>>
                ELSE << >>)
            \o (IF score_at_least(email, 70)
                THEN escalated(email, "send_escalation") ELSE << >>)
            \o send_notifications_from(es, b, i + 1)

RECURSIVE log_to_notion_from(_, _, _)
\* _log_to_notion: the calls it makes, email by email, then the batch summary.
log_to_notion_from(es, b, i) ==
    IF i > Len(b)
    THEN <<[method |-> "log_batch_summary", message_id |-> 0]>>
    ELSE LET email == es[b[i]]
             id == email.metadata.message_id
         IN (IF score_at_least(email, 80)
             THEN <<[method |-> "log_email_summary", message_id |-> id]>> ELSE << >>)
            \o escalated(email, "log_escalation")
            \o log_to_notion_from(es, b, i + 1)

(***************************************************************************)
(* EmailAgent.run as a state machine                                       *)
(***************************************************************************)
AgentInit ==
    /\ pc = "start"
    /\ inbox \in Inboxes
    /\ newest_first \in BOOLEAN
    /\ scopes \in ScopeSets
    /\ llm = << >>
    /\ operating_context = None
    /\ emails = << >>
    /\ batch_emails = << >>
    /\ batch_errors = << >>
    /\ fault = None
    /\ response = None
    /\ slack_client = None
    /\ notion_client = None
    /\ notifications = << >>
    /\ GraphIdle
    /\ mailbox = << >>
    /\ send_log = << >>
    /\ llm_requests = << >>
    /\ drafter = << >>
    /\ drafted = << >>
    /\ risk_checked = << >>
    /\ clock \in Hours
    /\ scoring_input = << >>
    /\ scored = << >>
    /\ llm_answer = << >>

\* The except clause of run(): record the error, return the error response.
Raise(stage, message_id) ==
    /\ fault' = <<[stage |-> stage, message_id |-> message_id]>>
    /\ batch_errors' = Append(batch_errors, stage)
    /\ response' = <<build_error_response>>
    /\ pc' = "returned"

\* SECTION 1: _check_tool_permissions
CheckToolPermissions ==
    /\ pc = "start"
    /\ operating_context' = <<create_missing_context(scopes)>>
    /\ pc' = "ingest"
    /\ UNCHANGED <<inbox, newest_first, scopes, llm, emails, batch_emails,
                   batch_errors, fault, response>>
    /\ UNCHANGED <<slack_client, notion_client, notifications>>
    /\ UNCHANGED <<graphVars, mailbox, send_log, llm_requests, fnVars>>

\* SECTION 2: _data_ingestion raises (the mailbox cannot be read).
IngestionRaises ==
    /\ pc = "ingest"
    /\ Raise("ingestion", 0)
    /\ UNCHANGED <<inbox, newest_first, scopes, llm, operating_context, emails,
                   batch_emails>>
    /\ UNCHANGED <<slack_client, notion_client, notifications>>
    /\ UNCHANGED <<graphVars, mailbox, send_log, llm_requests, fnVars>>

\* SECTION 2: _data_ingestion returns no email.
NoEmailsFound ==
    /\ pc = "ingest"
    /\ Len(inbox) = 0
    /\ response' = <<build_empty_response>>
    /\ pc' = "returned"
    /\ UNCHANGED <<inbox, newest_first, scopes, llm, operating_context, emails,
                   batch_emails, batch_errors, fault>>
    /\ UNCHANGED <<slack_client, notion_client, notifications>>
    /\ UNCHANGED <<graphVars, mailbox, send_log, llm_requests, fnVars>>

\* SECTION 2: _data_ingestion returns the listed emails; lines 142-143.
DataIngestion ==
    /\ pc = "ingest"
    /\ Len(inbox) > 0
    /\ emails' = [i \in 1..Len(inbox) |->
                    create_processed_email(Metadata(inbox, i, newest_first))]
    /\ batch_emails' = [i \in 1..Len(inbox) |-> i]
    /\ pc' = "core"
    /\ UNCHANGED <<inbox, newest_first, scopes, llm, operating_context,
                   batch_errors, fault, response>>
    /\ UNCHANGED <<slack_client, notion_client, notifications>>
    /\ UNCHANGED <<graphVars, mailbox, send_log, llm_requests, fnVars>>

\* SECTION 3: the core pipeline over every email (lines 148-149).
CorePipeline ==
    /\ pc = "core"
    /\ emails' = MapAt(emails, DOMAIN emails, process_email_core_pipeline)
    /\ pc' = "edge"
    /\ UNCHANGED <<inbox, newest_first, scopes, llm, operating_context,
                   batch_emails, batch_errors, fault, response>>
    /\ UNCHANGED <<slack_client, notion_client, notifications>>
    /\ UNCHANGED <<graphVars, mailbox, send_log, llm_requests, fnVars>>

\* SECTION 3: a collaborator of the core pipeline raises on the i-th email.
CorePipelineRaises ==
    /\ pc = "core"
    /\ \E i \in DOMAIN emails :
          /\ \E at \in CoreRaisePoints(emails[i]) :
                /\ emails' = [k \in DOMAIN emails |->
                                IF k < i THEN process_email_core_pipeline(emails[k])
                                ELSE IF k = i THEN core_pipeline_until(emails[k], at)
                                ELSE emails[k]]
          /\ Raise("core", emails[i].metadata.message_id)
    /\ UNCHANGED <<inbox, newest_first, scopes, llm, operating_context, batch_emails>>
    /\ UNCHANGED <<slack_client, notion_client, notifications>>
    /\ UNCHANGED <<graphVars, mailbox, send_log, llm_requests, fnVars>>

\* SECTION 4: _handle_edge_cases
HandleEdgeCases ==
    /\ pc = "edge"
    /\ LET r == handle_edge_cases(emails, batch_emails, operating_context[1], clock)
       IN /\ emails' = r.emails
          /\ batch_emails' = r.batch
    /\ pc' = "draft"
    /\ UNCHANGED <<inbox, newest_first, scopes, llm, operating_context,
                   batch_errors, fault, response>>
    /\ UNCHANGED <<slack_client, notion_client, notifications>>
    /\ UNCHANGED <<graphVars, mailbox, send_log, llm_requests, fnVars>>

\* SECTION 5: drafting over batch.emails (lines 155-157), Gemini and Slack
\* answering each call on its own.  A clarification request that raised
\* would leave _draft_replies and run() through the except clause;
\* send_clarification_request returns False instead.
Drafting ==
    /\ pc = "draft"
    /\ \E outcomes \in BatchOutcomes(emails, Range(batch_emails)) :
          LET done == draft_steps(emails, Range(batch_emails), outcomes, scopes)
              calls == clarification_calls(done, batch_emails)
          IN \E apis \in APIAnswers("slack", slack_client, calls) :
                LET s == run_calls("slack", slack_client, calls, apis)
                IN /\ llm' = outcomes
                   /\ notifications' = notifications \o s.log
                   /\ IF s.raised_at > 0
                      THEN LET k == calls[s.raised_at].message_id
                               pos == CHOOSE j \in DOMAIN batch_emails :
                                          batch_emails[j] = k
                               before == {batch_emails[j] : j \in 1..(pos - 1)}
                           IN /\ emails' =
                                    [draft_steps(emails, before, outcomes, scopes) EXCEPT
                                       ![k] = attach_draft(emails[k], outcomes[k])]
                              /\ Raise("slack", k)
                      ELSE /\ emails' = done
                           /\ pc' = "guard"
                           /\ UNCHANGED <<batch_errors, fault, response>>
    /\ UNCHANGED <<inbox, newest_first, scopes, operating_context, batch_emails>>
    /\ UNCHANGED <<slack_client, notion_client>>
    /\ UNCHANGED <<graphVars, mailbox, send_log, llm_requests, fnVars>>

\* Where _draft_replies can raise on an email it drafts: inside
\* ReplyDrafter.draft_reply once Gemini has answered (the reply subject or the
\* DraftReply cannot be built), in needs_clarification (line 425) and, when a
\* clarification is needed, in generate_clarification_request (line 427), once
\* the draft is attached, or at the tone and timing check and the follow-ups
\* (lines 464-471), once the clarification is asked for and the draft saved.
DraftingRaisePoints(email, outcome) ==
    {"draft_reply", "needs_clarification", "tone_check"}
        \cup (IF needs_clarification(attach_draft(email, outcome))
              THEN {"generate_clarification_request"} ELSE {})

\* _draft_replies when it raises at 'at' on an email it drafts: the email
\* keeps what was written before.
draft_replies_until(email, outcome, granted, at) ==
    CASE at = "draft_reply" -> email
      [] at \in {"needs_clarification", "generate_clarification_request"} ->
            attach_draft(email, outcome)
      [] at = "tone_check" -> draft_replies(email, outcome, granted)

\* SECTION 5: drafting raises on the i-th email of the batch, one that is
\* drafted.  Gemini has been asked about that email too.
DraftingRaises ==
    /\ pc = "draft"
    /\ \E i \in DOMAIN batch_emails :
          LET k == batch_emails[i]
              before == {batch_emails[j] : j \in 1..(i - 1)}
          IN /\ is_drafted(emails[k])
             /\ \E outcomes \in BatchOutcomes(emails, before \cup {k}) :
                \E at \in DraftingRaisePoints(emails[k], outcomes[k]) :
                   LET asked == SubSeq(batch_emails, 1,
                                      IF at = "tone_check" THEN i ELSE i - 1)
                       es1 == [draft_steps(emails, before, outcomes, scopes) EXCEPT
                                 ![k] = draft_replies_until(emails[k], outcomes[k],
                                                            scopes, at)]
                       calls == clarification_calls(es1, asked)
                   IN \E apis \in APIAnswers("slack", slack_client, calls) :
                            LET s == run_calls("slack", slack_client, calls, apis)
                            IN /\ s.raised_at = 0
                               /\ llm' = outcomes
                               /\ emails' = es1
                               /\ notifications' = notifications \o s.log
             /\ Raise("drafting", emails[k].metadata.message_id)
    /\ UNCHANGED <<inbox, newest_first, scopes, operating_context, batch_emails>>
    /\ UNCHANGED <<slack_client, notion_client>>
    /\ UNCHANGED <<graphVars, mailbox, send_log, llm_requests, fnVars>>

\* SECTION 6: guardrails over batch.emails (lines 160-161).
Guardrails ==
    /\ pc = "guard"
    /\ emails' = MapAt(emails, Range(batch_emails), apply_guardrails)
    /\ pc' = "output"
    /\ UNCHANGED <<inbox, newest_first, scopes, llm, operating_context,
                   batch_emails, batch_errors, fault, response>>
    /\ UNCHANGED <<slack_client, notion_client, notifications>>
    /\ UNCHANGED <<graphVars, mailbox, send_log, llm_requests, fnVars>>

\* SECTION 6: a guardrail raises on the i-th email of the batch.
GuardrailsRaises ==
    /\ pc = "guard"
    /\ \E i \in DOMAIN batch_emails :
          /\ \E at \in GuardrailRaisePoints(emails[batch_emails[i]]) :
                LET k == batch_emails[i]
                    done == {batch_emails[j] : j \in 1..(i - 1)}
                IN /\ emails' = [MapAt(emails, done, apply_guardrails) EXCEPT
                                   ![k] = apply_guardrails_until(emails[k], at)]
          /\ Raise("guardrails", emails[batch_emails[i]].metadata.message_id)
    /\ UNCHANGED <<inbox, newest_first, scopes, llm, operating_context, batch_emails>>
    /\ UNCHANGED <<slack_client, notion_client, notifications>>
    /\ UNCHANGED <<graphVars, mailbox, send_log, llm_requests, fnVars>>

\* _log_to_notion: the calls it makes.  The arguments of log_batch_summary
\* are read with metrics.get, outside every try: on a MetricsReport that is
\* no mapping the read raises and the call is not made.
log_to_notion_calls(es, b, metrics_is_mapping) ==
    LET calls == log_to_notion_from(es, b, 1)
    IN IF metrics_is_mapping THEN calls ELSE SubSeq(calls, 1, Len(calls) - 1)

\* SECTION 7: _generate_final_output: the queue and the metrics are built, the
\* notifications are sent, the batch is logged, the response is returned.
\* The remote APIs answer each call on their own.  MetricsReport (models.py)
\* is read as an object by MetricsGenerator and as a mapping by
\* _log_to_notion: it is one or the other.
FinalOutput ==
    /\ pc = "output"
    /\ \E metrics_is_mapping \in BOOLEAN :
          LET scalls == send_notifications_from(emails, batch_emails, 1)
              ncalls == log_to_notion_calls(emails, batch_emails, metrics_is_mapping)
              logging == notion_client # None /\ notion_client[1].enabled
          IN \E sapis \in APIAnswers("slack", slack_client, scalls),
                napis \in APIAnswers("notion", notion_client, ncalls) :
                LET s == run_calls("slack", slack_client, scalls, sapis)
                    n == run_calls("notion", notion_client, ncalls, napis)
                IN IF s.raised_at > 0
                   THEN Raise("slack", 0) /\ notifications' = notifications \o s.log
                   ELSE IF n.raised_at > 0
                   THEN /\ Raise("notion", 0)
                        /\ notifications' = notifications \o s.log \o n.log
                   ELSE IF logging /\ ~metrics_is_mapping
                   THEN /\ Raise("metrics", 0)
                        /\ notifications' = notifications \o s.log \o n.log
                   ELSE /\ response' = <<generate_final_output(emails, batch_emails)>>
                        /\ pc' = "returned"
                        /\ notifications' = notifications \o s.log \o n.log
                        /\ UNCHANGED <<batch_errors, fault>>
    /\ UNCHANGED <<inbox, newest_first, scopes, llm, operating_context, emails,
                   batch_emails>>
    /\ UNCHANGED <<slack_client, notion_client>>
    /\ UNCHANGED <<graphVars, mailbox, send_log, llm_requests, fnVars>>

AgentNext ==
    \/ CheckToolPermissions
    \/ IngestionRaises
    \/ NoEmailsFound
    \/ DataIngestion
    \/ CorePipeline
    \/ CorePipelineRaises
    \/ HandleEdgeCases
    \/ Drafting
    \/ DraftingRaises
    \/ Guardrails
    \/ GuardrailsRaises
    \/ FinalOutput

SpecAgent == AgentInit /\ [][AgentNext]_vars

(***************************************************************************)
(* Properties of EmailAgent.run                                            *)
(***************************************************************************)

\* run() has returned the response of _generate_final_output.
Completed == pc = "returned" /\ response # None /\ response[1].kind = "final"

HasDraft(email) == email.draft_reply # None

HasBlockingFlag(email) ==
    \E i \in 1..Len(email.security_flags) : email.security_flags[i].blocks_sending

\* C3: every draft attached to an email when run() completes requires
\* approval, whatever the sender's domain and the security flags.
C3_EveryDraftRequiresApproval ==
    Completed =>
        \A k \in DOMAIN emails :
            HasDraft(emails[k]) => emails[k].draft_reply[1].requires_approval

\* C4: an email found to be spam is untouched by every later stage: when the
\* batch completes its status is still BLOCKED and it has no draft.
C4_SpamStaysBlocked ==
    Completed =>
        \A k \in DOMAIN emails :
            emails[k].is_spam =>
                emails[k].status = "BLOCKED" /\ emails[k].draft_reply = None

\* C5: when the batch completes, every email carrying a security flag that
\* blocks sending is blocked and its status is BLOCKED or APPROVAL_REQUIRED.
C5_BlockingFlagBlocks ==
    Completed =>
        \A k \in DOMAIN emails :
            HasBlockingFlag(emails[k]) =>
                /\ emails[k].is_blocked
                /\ emails[k].status \in {"BLOCKED", "APPROVAL_REQUIRED"}

\* A completed batch holds an email that the reply-all handler flagged with a
\* flag that blocks sending.
C5_Witness ==
    /\ Completed
    /\ \E k \in DOMAIN emails :
          /\ has_flag(emails[k], "reply_all_risk")
          /\ HasBlockingFlag(emails[k])
          /\ HasDraft(emails[k])

\* C6: without the send scope every draft of the batch requires approval when
\* the batch completes, drafts for internal senders with no flag included.
C6_DraftOnlyForcesApproval ==
    (Completed /\ ~operating_context[1].can_send) =>
        \A k \in DOMAIN emails :
            HasDraft(emails[k]) => emails[k].draft_reply[1].requires_approval

\* C7: with two or more emails from one sender every ingested email is still
\* in batch.emails and in the queue once conflicts are resolved; the older
\* ones carry the superseded note and only the newest of a sender has a draft.
C7_SupersededEmailsKept ==
    (pc \in {"draft", "guard", "output", "returned"} /\ fault = None
                                                    /\ emails # << >>) =>
        /\ Range(batch_emails) = DOMAIN emails
        /\ Completed => response[1].items = 1..Len(inbox)
        /\ \A k \in DOMAIN emails :
              (\E j \in DOMAIN emails :
                  /\ emails[j].metadata.sender = emails[k].metadata.sender
                  /\ emails[j].metadata.date > emails[k].metadata.date)
              => /\ "Superseded by a newer email from the same sender"
                        \in emails[k].processing_notes
                 /\ ~HasDraft(emails[k])

\* C8: an error raised for one email in a per-email stage (core, drafting,
\* guardrails) does not abort the batch: run() still returns the queue with
\* every email, the failing one marked BLOCKED.
C8_PerEmailErrorIsContained ==
    (pc = "returned" /\ fault # None
                     /\ fault[1].stage \in {"core", "drafting", "guardrails"}) =>
        /\ response[1].kind = "final"
        /\ response[1].items = 1..Len(inbox)
        /\ emails[fault[1].message_id].status = "BLOCKED"

\* C9: every value run() returns, on the normal, the no-emails and the error
\* path, holds batch_info.batch_id, an errors list and a summary.
C9_ResponseShape ==
    pc = "returned" =>
        /\ "batch_info.batch_id" \in response[1].keys
        /\ "errors" \in response[1].keys
        /\ {"summary", "queue.summary"} \cap response[1].keys # {}

(***************************************************************************)
(* EmailAgent.run with the chat and task-tracker integrations              *)
(***************************************************************************)

\* Largest batch followed with the integrations configured.
MaxNotifyBatch == 1

\* EmailAgent.__init__, lines 77-95: a client is None when its integration is
\* switched off or its constructor raises; a constructed client is enabled
\* or not.
ClientStates == {None, <<[enabled |-> FALSE]>>, <<[enabled |-> TRUE]>>}

NotifyInit ==
    /\ pc = "start"
    /\ inbox \in UNION {[1..n -> Messages] : n \in 0..MaxNotifyBatch}
    /\ newest_first \in BOOLEAN
    /\ scopes \in ScopeSets
    /\ llm = << >>
    /\ operating_context = None
    /\ emails = << >>
    /\ batch_emails = << >>
    /\ batch_errors = << >>
    /\ fault = None
    /\ response = None
    /\ slack_client \in ClientStates
    /\ notion_client \in ClientStates
    /\ notifications = << >>
    /\ GraphIdle
    /\ mailbox = << >>
    /\ send_log = << >>
    /\ llm_requests = << >>
    /\ drafter = << >>
    /\ drafted = << >>
    /\ risk_checked = << >>
    /\ clock \in Hours
    /\ scoring_input = << >>
    /\ scored = << >>
    /\ llm_answer = << >>

SpecNotify == NotifyInit /\ [][AgentNext]_vars

\* What run() computes from the mailbox, the scopes and the model's answer
\* when no call of a collaborator fails: the emails and the batch.
ExpectedBatch ==
    LET e0 == [i \in 1..Len(inbox) |->
                 create_processed_email(Metadata(inbox, i, newest_first))]
        e1 == MapAt(e0, DOMAIN e0, process_email_core_pipeline)
        r  == handle_edge_cases(e1, [i \in 1..Len(inbox) |-> i],
                                create_missing_context(scopes), clock)
        e2 == draft_steps(r.emails, Range(r.batch), llm, scopes)
    IN [emails |-> MapAt(e2, Range(r.batch), apply_guardrails), batch |-> r.batch]

\* C13: a failing Slack or Notion call, the clarification request sent while
\* drafting included, never ends run() through its except clause and never
\* changes an email: a batch that ingested emails and met no other error
\* returns the response and the emails it returns when every call succeeds.
C13_NotifierFailureSwallowed ==
    /\ fault # None => fault[1].stage \notin {"slack", "notion"}
    /\ (pc = "returned" /\ fault = None /\ Len(inbox) > 0) =>
          /\ emails = ExpectedBatch.emails
          /\ batch_emails = ExpectedBatch.batch
          /\ response = <<generate_final_output(ExpectedBatch.emails, ExpectedBatch.batch)>>


(***************************************************************************)
(* The mailbox send operation (app/gmail/send.py)                          *)
(***************************************************************************)

\* Direct calls of send_email followed in one run.
MaxCalls == 2

Some(x) == <<x>>

\* The values a caller can pass as approval_status (None included).
ApprovalValues ==
    {None, Some("APPROVED"), Some("REQUIRED"), Some("REJECTED"),
     Some("NOT_REQUIRED"), Some("approved")}

\* Paths that name a file on disk; any other path names none.
ExistingFiles == {"report.pdf"}

\* The keyword parameters of send_email.
send_email_parameters ==
    {"service", "to", "subject", "body", "approval_status", "cc", "bcc", "attachments"}

\* Python's binding of a call by keywords: every keyword must be a parameter.
binds(keywords) == keywords \subseteq send_email_parameters

\* The gate with a case-insensitive comparison in place of the exact one.
approval_missing_ignoring_case(approval_status) ==
    approval_status \notin {Some("APPROVED"), Some("approved")}

\* send_email, line 19: the condition under which the send is refused.
approval_missing(approval_status) == approval_status # Some("APPROVED")

\* normalize_header for None and strings: a falsy value gives None.
normalize_header(value) ==
    IF value = None \/ value = Some("") THEN None ELSE value

\* send_email: the exception it raises ("none" when it returns) and the
\* messages it hands to service.users().messages().send.
send_email(args) ==
    IF approval_missing(args.approval_status)
    THEN [raised |-> "PermissionError", sent |-> << >>]
    ELSE IF args.body = None
    THEN [raised |-> "AttributeError", sent |-> << >>]
    ELSE IF \E i \in 1..Len(args.attachments) : args.attachments[i] \notin ExistingFiles
    THEN [raised |-> "FileNotFoundError", sent |-> << >>]
    ELSE [raised |-> "none",
          sent   |-> <<[to          |-> normalize_header(args.to),
                        subject     |-> IF args.subject = None THEN "" ELSE args.subject[1],
                        cc          |-> normalize_header(args.cc),
                        bcc         |-> normalize_header(args.bcc),
                        body        |-> args.body[1],
                        attachments |-> args.attachments]>>]

\* The arguments of the direct calls followed.
SendEmailArgs ==
    [to              : {Some("dave@partner.example")},
     subject         : {None, Some("Hello")},
     body            : {None, Some("Thanks.")},
     approval_status : ApprovalValues,
     cc              : {None, Some("carol@Corp.Example")},
     bcc             : {None},
     attachments     : {<< >>, <<"report.pdf">>, <<"missing.pdf">>}]

SendEmailInit ==
    /\ mailbox = << >>
    /\ send_log = << >>
    /\ llm_requests = << >>
    /\ GraphIdle
    /\ pc = "idle"
    /\ inbox = << >>
    /\ newest_first = FALSE
    /\ scopes = {}
    /\ llm = << >>
    /\ operating_context = None
    /\ emails = << >>
    /\ batch_emails = << >>
    /\ batch_errors = << >>
    /\ fault = None
    /\ response = None
    /\ slack_client = None
    /\ notion_client = None
    /\ notifications = << >>
    /\ FnIdle

\* One call send_email(service, to, subject, body, approval_status, ...).
SendEmailCall ==
    /\ Len(send_log) < MaxCalls
    /\ \E args \in SendEmailArgs :
          LET r == send_email(args)
          IN /\ mailbox' = mailbox \o r.sent
             /\ send_log' = Append(send_log,
                               [args |-> args, raised |-> r.raised,
                                sends_before |-> Len(mailbox),
                                sends_after  |-> Len(mailbox) + Len(r.sent)])
    /\ UNCHANGED <<agentVars, graphVars, llm_requests, fnVars>>

SendEmailNext == SendEmailCall

SpecSendEmail == SendEmailInit /\ [][SendEmailNext]_vars

\* C2: every call of send_email whose approval_status is anything other than
\* the string "APPROVED" ends with PermissionError, and the mailbox send
\* operation is not invoked by it.
C2_UnapprovedSendRefused ==
    \A i \in 1..Len(send_log) :
        send_log[i].args.approval_status # Some("APPROVED") =>
            /\ send_log[i].raised = "PermissionError"
            /\ send_log[i].sends_after = send_log[i].sends_before

\* A call with an approval_status other than "APPROVED" was refused after an
\* approved call had put a message in the mailbox.
C2_Witness ==
    /\ Len(mailbox) = 1
    /\ \E i \in 1..Len(send_log) :
          /\ send_log[i].args.approval_status = Some("approved")
          /\ send_log[i].raised = "PermissionError"
          /\ send_log[i].sends_before = 1

(***************************************************************************)
(* The interactive graph (app/graph/graph.py, app/nodes, main.py)          *)
(***************************************************************************)

\* Largest number of emails fetch_node gets from the mailbox.
MaxEmails == 1
\* Executions of send_node followed in one run of the graph.
MaxSends == 2

\* A recipient dictionary.  to_is_list is FALSE when "to" holds a string in
\* place of a list; 'to' then holds that one string.
Recipients(to, cc, bcc, to_is_list) ==
    [to |-> to, cc |-> cc, bcc |-> bcc, to_is_list |-> to_is_list]

NoRecipients == Recipients(<< >>, << >>, << >>, TRUE)

\* The recipient dictionaries a language model answers with.
RecipientChoices ==
    {NoRecipients,
     Recipients(<<"dave@partner.example">>, << >>, << >>, TRUE),
     Recipients(<<"dave@partner.example">>, <<"dave@partner.example">>, << >>, TRUE),
     Recipients(<<"dave@partner.example">>, << >>, <<"dave@partner.example">>, TRUE),
     Recipients(<<"dave@partner.example">>, <<"carol@Corp.Example">>,
                <<"carol@Corp.Example">>, TRUE),
     Recipients(<<"dave@partner.example">>, << >>, << >>, FALSE)}

\* What interpret_intent returns when the model answers with valid JSON.
IntentAnalyses ==
    [intent          : {"CHECK_INBOX", "REPLY", "COMPOSE", "UNKNOWN", "EXIT"},
     recipient       : RecipientChoices,
     subject         : {None, Some("Hello")},
     has_attachments : {TRUE}]

\* input_agent_node, lines 28-40: the analysis used when interpret_intent
\* raises; its parameters hold no "attachments" key.
fallback_analysis ==
    [intent |-> "UNKNOWN", recipient |-> NoRecipients, subject |-> None,
     has_attachments |-> FALSE]

\* The email dictionaries fetch_recent_emails builds (headers may be missing).
EmailDicts ==
    {[from |-> Some("bob@partner.example"), subject |-> Some("Hello")],
     [from |-> None, subject |-> None]}

FetchResults == UNION {[1..n -> EmailDicts] : n \in 0..MaxEmails}

\* What call_llm returns to compose_node: text that is no JSON ("Sorry, I
\* cannot."), one line of text that is no JSON and starts with the word json
\* ("JSON not available"), a JSON object with the keys asked for, or the JSON
\* error payload of call_ollama.
ComposeReplies ==
    [kind : {"json"}, subject : {Some("Update")}, draft : {Some("Dear Dave, ...")},
     recipient : RecipientChoices, attachments : {<<"report.pdf">>}]
    \cup {[kind |-> k, subject |-> None, draft |-> None, recipient |-> NoRecipients,
           attachments |-> << >>] :
              k \in {"invalid_json", "invalid_json_word", "ollama_payload"}}

\* The replies json.loads would reject.
NotValidJSON == {"invalid_json", "invalid_json_word"}

\* clean_json, lines 11-12: a text that starts with "json" is cut at its
\* first line break, and split("\n", 1)[1] raises IndexError when it has none.
clean_json_raises(reply) == reply.kind = "invalid_json_word"

\* What call_llm returns to draft_node, stripped.
DraftReplies == {"", "Thanks, noted.", "{\"priority\":\"MEDIUM\", ...}"}

\* main.py: the state the graph is invoked with.  A key the dictionary does
\* not hold is None ("unset" for user_action).
initial_state ==
    [mode              |-> "UNKNOWN",
     emails            |-> << >>,
     raw_thread        |-> None,
     user_action       |-> "unset",
     approval_status   |-> None,
     recipient         |-> None,
     subject           |-> None,
     draft             |-> None,
     attachments       |-> None,
     risk_flags        |-> None,
     edit_instructions |-> None]

\* graph.py line 23, state.py: the graph is built on EmailAgentState, and what
\* a node returns reaches the next node through the keys the schema declares;
\* approval_status and risk_flags are not among them.
channels(s) == [s EXCEPT !.approval_status = None, !.risk_flags = None]

\* memory_retrieve_node: writes episodic_memory only.
memory_retrieve_node(s) == s

\* memory_retrieve_node, lines 13-39: the memory store searched, "none" when
\* the node returns without a search; has_query is FALSE when the prompt is
\* empty or its embedding fails.
memory_retrieve_rpc(s, has_query) ==
    IF ~has_query THEN "none"
    ELSE IF s.mode = "COMPOSE" THEN "match_compose_memories"
    ELSE IF s.user_action = "REPLY" THEN "match_reply_memories"
    ELSE "none"

\* input_agent_node, lines 43-49.
input_agent_node(s, analysis) ==
    [s EXCEPT !.mode = analysis.intent,
              !.recipient = Some(analysis.recipient),
              !.subject = analysis.subject,
              !.attachments = IF analysis.has_attachments THEN Some(<< >>) ELSE @]

\* graph.py lines 51-60: the edge taken after input_agent; a mode outside
\* the mapping makes the graph raise.
input_router(s) ==
    CASE s.mode = "CHECK_INBOX" -> "fetch"
      [] s.mode = "REPLY"       -> "fetch"
      [] s.mode = "COMPOSE"     -> "compose"
      [] s.mode = "UNKNOWN"     -> "memory_write"
      [] OTHER                  -> "crashed"

\* fetch_node: the emails fetched, [] when the mailbox raises.
fetch_node(s, fetched) == [s EXCEPT !.emails = fetched]

\* classify_node: attaches a classification to every email.
classify_node(s) == s

\* inbox_review_node, lines 82-99: the i-th listed email is selected.
select_email(s, i) ==
    [s EXCEPT !.raw_thread = Some(s.emails[i]),
              !.recipient = IF s.emails[i].from # None
                            THEN Some(Recipients(<<s.emails[i].from[1]>>, << >>, << >>, TRUE))
                            ELSE @]

\* inbox_review_node: the user may select an email and go back (backed), then
\* either exits (picked = 0) or selects an email and an action.
inbox_review_node(s, backed, picked, action) ==
    IF s.emails = << >> THEN [s EXCEPT !.user_action = "DONE"]
    ELSE LET s1 == IF backed = 0 THEN s ELSE select_email(s, backed)
         IN  IF picked = 0 THEN [s1 EXCEPT !.user_action = "DONE"]
             ELSE [select_email(s1, picked) EXCEPT !.user_action = action]

\* graph.py lines 68-76.
inbox_router(s) ==
    CASE s.user_action = "SUMMARIZE" -> "summarize"
      [] s.user_action = "REPLY"     -> "draft"
      [] s.user_action = "DONE"      -> "memory_write"
      [] OTHER                       -> "crashed"

\* summarize_node: writes summary only.
summarize_node(s) == s

\* draft_node, lines 87-89: "Re: " is put before a subject that has none.
reply_subject(subject) ==
    IF subject = Some("Hello") THEN Some("Re: Hello") ELSE subject

\* draft_node, lines 95-98: the text of the "absolute safety fallback".
DRAFT_FALLBACK == "Thank you for your message. I have reviewed the details ..."

\* draft_node
draft_node(s, reply) ==
    [s EXCEPT !.subject = reply_subject(s.raw_thread[1].subject),
              !.draft = IF reply = ""
                        THEN Some(DRAFT_FALLBACK)
                        ELSE Some(reply)]

\* compose_node: the edit mode when edit instructions are set and not
\* empty, the create mode otherwise.
compose_node(s, reply) ==
    IF s.edit_instructions # None /\ s.edit_instructions # Some("")
    THEN IF reply.kind = "invalid_json"
         THEN [s EXCEPT !.edit_instructions = None]
         ELSE [s EXCEPT !.subject = reply.subject,
                        !.recipient = Some(reply.recipient),
                        !.attachments = Some(reply.attachments),
                        !.draft = reply.draft,
                        !.approval_status = Some("REQUIRED"),
                        !.risk_flags = Some(<<"USER_COMPOSE">>),
                        !.edit_instructions = None]
    ELSE IF reply.kind = "invalid_json"
         THEN s
         ELSE [s EXCEPT !.subject = reply.subject,
                        !.draft = reply.draft,
                        !.recipient = Some(reply.recipient),
                        !.attachments = Some(reply.attachments),
                        !.approval_status = Some("REQUIRED"),
                        !.risk_flags = Some(<<"USER_COMPOSE">>)]

\* review_node, lines 26-47: the user's choice.
review_node(s, choice, instructions) ==
    CASE choice = "s" -> [s EXCEPT !.user_action = "SEND",
                                   !.approval_status = Some("APPROVED")]
      [] choice = "e" -> [s EXCEPT !.user_action = "EDIT",
                                   !.approval_status = Some("REJECTED"),
                                   !.edit_instructions = Some(instructions)]
      [] choice = "c" -> [s EXCEPT !.user_action = "CANCEL"]

\* The router with an edit request routed to send as well.
review_router_edit_sends(s) ==
    IF s.user_action \in {"SEND", "EDIT"} THEN "send"
    ELSE IF s.user_action = "CANCEL"
         THEN (IF s.emails # << >> THEN "inbox_review" ELSE "memory_write")
         ELSE "memory_write"

\* graph.py lines 87-97.
review_router(s) ==
    IF s.user_action = "SEND" THEN "send"
    ELSE IF s.user_action = "EDIT" THEN "compose"
    ELSE IF s.user_action = "CANCEL"
         THEN (IF s.emails # << >> THEN "inbox_review" ELSE "memory_write")
         ELSE "memory_write"

\* The edge after send with END left as the end of the run.
after_send_router_to_end(s) ==
    IF s.emails # << >> THEN "inbox_review" ELSE "END"

\* graph.py lines 113-116 and 118-125: END is mapped to memory_write.
after_send_router(s) ==
    IF s.emails # << >> THEN "inbox_review" ELSE "memory_write"

\* memory_write_node: writes to the memory store only.
memory_write_node(s) == s

\* ", ".join(lst) for a list of at most one address.
join_addresses(lst) == IF lst = << >> THEN "" ELSE lst[1]

\* The keywords send_node calls send_email with (lines 52-64).
send_node_keywords ==
    send_email_parameters \cup {"thread_id", "in_reply_to", "references"}

\* send_node, lines 17-34 and 52-60: the arguments handed to send_email.
send_node_args(s) ==
    LET recipients == IF s.recipient = None THEN NoRecipients ELSE s.recipient[1]
    IN [to              |-> Some(join_addresses(recipients.to)),
        subject         |-> s.subject,
        body            |-> s.draft,
        approval_status |-> Some("APPROVED"),
        cc              |-> IF recipients.cc = << >> THEN None
                            ELSE Some(join_addresses(recipients.cc)),
        bcc             |-> IF recipients.bcc = << >> THEN None
                            ELSE Some(join_addresses(recipients.bcc)),
        attachments     |-> IF s.attachments = None THEN << >> ELSE s.attachments[1]]

\* The assertions with the checks against the bcc list left out.
recipients_valid_to_cc_only(s) ==
    LET recipients == IF s.recipient = None THEN NoRecipients ELSE s.recipient[1]
    IN /\ recipients.to_is_list
       /\ Range(recipients.to) \cap Range(recipients.cc) = {}

\* send_node, lines 24-30: the assertions on the recipient lists.
recipients_valid(s) ==
    LET recipients == IF s.recipient = None THEN NoRecipients ELSE s.recipient[1]
    IN /\ recipients.to_is_list
       /\ Range(recipients.to) \cap Range(recipients.cc) = {}
       /\ Range(recipients.to) \cap Range(recipients.bcc) = {}
       /\ Range(recipients.cc) \cap Range(recipients.bcc) = {}

\* send_node: whether the call of send_email is reached and what the call
\* hands to the mailbox.  Every exception is caught by the node.
send_node(s, service_ok) ==
    LET reached == service_ok /\ recipients_valid(s)
        args    == send_node_args(s)
    IN [called |-> reached,
        args   |-> args,
        sent   |-> IF reached /\ binds(send_node_keywords)
                   THEN send_email(args).sent ELSE << >>]

GraphInit ==
    /\ node = "memory_retrieve"
    /\ prev_node = "none"
    /\ state = initial_state
    /\ reviewed = None
    /\ last_send = None
    /\ send_count = 0
    /\ memory_search = None
    /\ mailbox = << >>
    /\ send_log = << >>
    /\ llm_requests = << >>
    /\ pc = "idle"
    /\ inbox = << >>
    /\ newest_first = FALSE
    /\ scopes = {}
    /\ llm = << >>
    /\ operating_context = None
    /\ emails = << >>
    /\ batch_emails = << >>
    /\ batch_errors = << >>
    /\ fault = None
    /\ response = None
    /\ slack_client = None
    /\ notion_client = None
    /\ notifications = << >>
    /\ FnIdle

\* What every node leaves alone unless it says otherwise.
GraphFrame == UNCHANGED <<agentVars, send_log, llm_requests, fnVars>>

MemoryRetrieve ==
    /\ node = "memory_retrieve"
    /\ state' = channels(memory_retrieve_node(state))
    /\ \E has_query \in BOOLEAN :
          memory_search' = Some(memory_retrieve_rpc(state, has_query))
    /\ node' = "input_agent"
    /\ prev_node' = node
    /\ UNCHANGED <<reviewed, last_send, send_count, mailbox>>
    /\ GraphFrame

\* input_agent_node followed by the edge taken after it; line 50 raises
\* KeyError when the analysis holds no attachments, which is the case of the
\* fallback analysis.
input_agent_step(s, raises, answered) ==
    LET analysis == IF raises THEN fallback_analysis ELSE answered
        s1       == input_agent_node(s, analysis)
    IN [state |-> s1,
        next  |-> IF analysis.has_attachments THEN input_router(s1) ELSE "crashed"]

InputAgent ==
    /\ node = "input_agent"
    /\ \E raises \in BOOLEAN, answered \in IntentAnalyses :
          LET r == input_agent_step(state, raises, answered)
          IN /\ state' = channels(r.state)
             /\ node' = r.next
    /\ prev_node' = node
    /\ UNCHANGED <<reviewed, last_send, send_count, mailbox, memory_search>>
    /\ GraphFrame

Fetch ==
    /\ node = "fetch"
    /\ \E fetched \in FetchResults : state' = channels(fetch_node(state, fetched))
    /\ node' = "classify"
    /\ prev_node' = node
    /\ UNCHANGED <<reviewed, last_send, send_count, mailbox, memory_search>>
    /\ GraphFrame

Classify ==
    /\ node = "classify"
    /\ state' = channels(classify_node(state))
    /\ node' = "inbox_review"
    /\ prev_node' = node
    /\ UNCHANGED <<reviewed, last_send, send_count, mailbox, memory_search>>
    /\ GraphFrame

InboxReview ==
    /\ node = "inbox_review"
    /\ \E backed \in 0..Len(state.emails), picked \in 0..Len(state.emails),
          action \in {"SUMMARIZE", "REPLY"} :
          state' = channels(inbox_review_node(state, backed, picked, action))
    /\ node' = inbox_router(state')
    /\ prev_node' = node
    /\ UNCHANGED <<reviewed, last_send, send_count, mailbox, memory_search>>
    /\ GraphFrame

Summarize ==
    /\ node = "summarize"
    /\ state' = channels(summarize_node(state))
    /\ node' = "inbox_review"
    /\ prev_node' = node
    /\ UNCHANGED <<reviewed, last_send, send_count, mailbox, memory_search>>
    /\ GraphFrame

Draft ==
    /\ node = "draft"
    /\ \E reply \in DraftReplies : state' = channels(draft_node(state, reply))
    /\ node' = "review"
    /\ prev_node' = node
    /\ UNCHANGED <<reviewed, last_send, send_count, mailbox, memory_search>>
    /\ GraphFrame

\* One run of the compose node on an answer of call_llm: clean_json is
\* called outside the try block, and a JSON answer without the keys asked for
\* raises KeyError; the node that returns is followed by review.
compose_node_step(s, reply) ==
    IF clean_json_raises(reply) \/ reply.kind = "ollama_payload"
    THEN [state |-> s, next |-> "crashed"]
    ELSE [state |-> channels(compose_node(s, reply)), next |-> "review"]

Compose ==
    /\ node = "compose"
    /\ \E reply \in ComposeReplies :
          LET r == compose_node_step(state, reply)
          IN state' = r.state /\ node' = r.next
    /\ prev_node' = node
    /\ UNCHANGED <<reviewed, last_send, send_count, mailbox, memory_search>>
    /\ GraphFrame

\* review_node; the assertion of lines 6-7 fails when "to" is no list.
Review ==
    /\ node = "review"
    /\ IF ~state.recipient[1].to_is_list
       THEN /\ node' = "crashed"
            /\ UNCHANGED <<state, reviewed>>
       ELSE \E choice \in {"s", "e", "c"}, instructions \in {"", "shorter"} :
               LET returned == review_node(state, choice, instructions)
               IN /\ state' = channels(returned)
                  /\ reviewed' = Some([recipient       |-> state.recipient[1],
                                       subject         |-> state.subject,
                                       draft           |-> state.draft,
                                       user_action     |-> returned.user_action,
                                       approval_status |-> returned.approval_status])
                  /\ node' = review_router(state')
    /\ prev_node' = node
    /\ UNCHANGED <<last_send, send_count, mailbox, memory_search>>
    /\ GraphFrame

Send ==
    /\ node = "send"
    /\ send_count < MaxSends
    /\ \E service_ok \in BOOLEAN :
          LET r == send_node(state, service_ok)
          IN /\ mailbox' = mailbox \o r.sent
             /\ last_send' = Some([prev     |-> prev_node,
                                   reviewed |-> reviewed,
                                   called   |-> r.called,
                                   args     |-> r.args,
                                   sent     |-> r.sent # << >>])
    /\ send_count' = send_count + 1
    /\ node' = after_send_router(state)
    /\ prev_node' = node
    /\ UNCHANGED <<state, reviewed, memory_search>>
    /\ GraphFrame

MemoryWrite ==
    /\ node = "memory_write"
    /\ state' = channels(memory_write_node(state))
    /\ node' = "END"
    /\ prev_node' = node
    /\ UNCHANGED <<reviewed, last_send, send_count, mailbox, memory_search>>
    /\ GraphFrame

GraphNext ==
    \/ MemoryRetrieve
    \/ InputAgent
    \/ Fetch
    \/ Classify
    \/ InboxReview
    \/ Summarize
    \/ Draft
    \/ Compose
    \/ Review
    \/ Send
    \/ MemoryWrite

SpecGraph == GraphInit /\ [][GraphNext]_vars

\* C1: every execution of send_node comes right after an execution of
\* review_node in which the user chose Send (user_action SEND, approval_status
\* APPROVED), and the draft, subject and recipients it hands over are the
\* ones that review showed.
C1_SendFollowsApprovedReview ==
    /\ node = "send" =>
          /\ prev_node = "review"
          /\ state.user_action = "SEND"
          /\ reviewed # None
          /\ reviewed[1].approval_status = Some("APPROVED")
    /\ last_send # None =>
          LET a == last_send[1]
          IN /\ a.prev = "review"
             /\ a.reviewed # None
             /\ a.reviewed[1].user_action = "SEND"
             /\ a.reviewed[1].approval_status = Some("APPROVED")
             /\ a.args.body = a.reviewed[1].draft
             /\ a.args.subject = a.reviewed[1].subject
             /\ a.args.to = Some(join_addresses(a.reviewed[1].recipient.to))
             /\ (a.args.cc = None) = (a.reviewed[1].recipient.cc = << >>)
             /\ a.args.cc # None =>
                   a.args.cc = Some(join_addresses(a.reviewed[1].recipient.cc))

\* An address appears in two of the lists to, cc and bcc.
Overlapping(recipients) ==
    \E a \in Range(recipients.to) \cup Range(recipients.cc) :
        \/ a \in Range(recipients.to) /\ a \in Range(recipients.cc)
        \/ a \in Range(recipients.to) /\ a \in Range(recipients.bcc)
        \/ a \in Range(recipients.cc) /\ a \in Range(recipients.bcc)

\* C12: when an address appears in two of to, cc and bcc, send_node does not
\* reach its call of send_email and hands nothing to the mailbox; the failure
\* stays inside the node, which returns the state it was given and lets the
\* graph go on.
C12_OverlapNeverSent ==
    /\ [](last_send # None /\ last_send[1].reviewed # None
                           /\ Overlapping(last_send[1].reviewed[1].recipient)
            => ~last_send[1].called /\ ~last_send[1].sent)
    /\ [][(node = "send" /\ state.recipient # None /\ Overlapping(state.recipient[1]))
            => /\ mailbox' = mailbox
               /\ state' = state
               /\ node' \in {"inbox_review", "memory_write"}]_vars

\* send_node ran on recipients whose cc and bcc lists share an address and
\* did not reach the call of send_email.
C12_Witness ==
    /\ last_send # None
    /\ last_send[1].reviewed # None
    /\ Range(last_send[1].reviewed[1].recipient.cc)
          \cap Range(last_send[1].reviewed[1].recipient.bcc) # {}
    /\ ~last_send[1].called
    /\ node \in {"inbox_review", "memory_write"}

\* send_node reached its call of send_email right after a review, with a draft
\* and a recipient, in a run that had fetched emails.
C1_Witness ==
    /\ last_send # None
    /\ last_send[1].called
    /\ last_send[1].prev = "review"
    /\ last_send[1].args.body # None
    /\ last_send[1].args.to = Some("dave@partner.example")
    /\ state.emails # << >>

(***************************************************************************)
(* Text sent to language-model endpoints (app/llm, drafting/reply_drafter) *)
(***************************************************************************)

\* Requests followed in one run.
MaxRequests == 2
\* Longest user text, in tokens.
MaxTextLen == 2

\* A text is a sequence of tokens: plain words, a card number, an address.
PIITokens == {"4111111111111111", "bob@partner.example"}
Tokens == {"words"} \cup PIITokens
Texts == UNION {[1..n -> Tokens] : n \in 1..MaxTextLen}

contains_pii(text) == \E i \in 1..Len(text) : text[i] \in PIITokens

\* PIIDetector.anonymize_text: every PII substring is replaced by its
\* canonical placeholder.
anonymize_text(text) ==
    [i \in 1..Len(text) |->
        CASE text[i] = "4111111111111111"    -> "[CREDIT_CARD]"
          [] text[i] = "bob@partner.example" -> "[EMAIL]"
          [] OTHER                           -> text[i]]

Request(path, endpoint, text) == [path |-> path, endpoint |-> endpoint, text |-> text]

\* call_llm: the prompt is scrubbed, sent to Gemini and, when Gemini fails,
\* sent to Ollama.
call_llm(prompt, gemini_fails) ==
    LET safe_prompt == anonymize_text(prompt)
    IN  <<Request("call_llm", "gemini", safe_prompt)>>
        \o (IF gemini_fails THEN <<Request("call_llm", "ollama", safe_prompt)>>
            ELSE << >>)

\* ReplyDrafter._build_context: the instruction, the subject and the sender.
build_context(subject, sender) ==
    <<"Write a short, professional email reply.">> \o subject \o <<sender>>

\* ReplyDrafter._generate_with_gemini: the context goes to Gemini as built;
\* nothing is sent without a client.
generate_with_gemini_request(context, has_client) ==
    IF has_client THEN <<Request("ReplyDrafter", "gemini", context)>> ELSE << >>

\* interpret_intent: the instruction followed by the user prompt.
interpret_intent_request(user_prompt) ==
    <<Request("interpret_intent", "gemini",
              <<"You are an email command interpreter">> \o user_prompt)>>

\* embed_text: the text goes to the embedding model of Gemini as it is; an
\* empty text raises ValueError before anything is sent.
embed_text_request(text) ==
    IF text = << >> THEN << >> ELSE <<Request("embed_text", "gemini", text)>>

LLMInit ==
    /\ llm_requests = << >>
    /\ mailbox = << >>
    /\ send_log = << >>
    /\ GraphIdle
    /\ pc = "idle"
    /\ inbox = << >>
    /\ newest_first = FALSE
    /\ scopes = {}
    /\ llm = << >>
    /\ operating_context = None
    /\ emails = << >>
    /\ batch_emails = << >>
    /\ batch_errors = << >>
    /\ fault = None
    /\ response = None
    /\ slack_client = None
    /\ notion_client = None
    /\ notifications = << >>
    /\ FnIdle

\* A node of the graph calls call_llm(prompt, task).
CallLLM ==
    /\ Len(llm_requests) < MaxRequests
    /\ \E prompt \in Texts, gemini_fails \in BOOLEAN :
          llm_requests' = llm_requests \o call_llm(prompt, gemini_fails)
    /\ UNCHANGED <<agentVars, graphVars, mailbox, send_log, fnVars>>

\* ReplyDrafter.draft_reply with Gemini enabled (lines 53-59).
DraftWithGemini ==
    /\ Len(llm_requests) < MaxRequests
    /\ \E subject \in Texts, sender \in Senders, has_client \in BOOLEAN :
          llm_requests' = llm_requests \o
              generate_with_gemini_request(build_context(subject, sender), has_client)
    /\ UNCHANGED <<agentVars, graphVars, mailbox, send_log, fnVars>>

\* input_agent_node calls interpret_intent(user_prompt).
InterpretIntent ==
    /\ Len(llm_requests) < MaxRequests
    /\ \E user_prompt \in Texts :
          llm_requests' = llm_requests \o interpret_intent_request(user_prompt)
    /\ UNCHANGED <<agentVars, graphVars, mailbox, send_log, fnVars>>

\* memory_retrieve_node (the user prompt), memory_write_node (the reply, the
\* user prompt, the draft, the summary of an email) and run_startup_scan (the
\* summary of an email) call embed_text(text).
EmbedText ==
    /\ Len(llm_requests) < MaxRequests
    /\ \E text \in Texts :
          llm_requests' = llm_requests \o embed_text_request(text)
    /\ UNCHANGED <<agentVars, graphVars, mailbox, send_log, fnVars>>

LLMNext ==
    \/ CallLLM
    \/ DraftWithGemini
    \/ InterpretIntent
    \/ EmbedText

SpecLLM == LLMInit /\ [][LLMNext]_vars

\* C10: every text sent to a language-model endpoint, by call_llm, by
\* ReplyDrafter._generate_with_gemini, by interpret_intent and by embed_text, has been
\* through the anonymize step: it holds no PII and scrubbing it again
\* changes nothing.
C10_EveryPromptScrubbed ==
    \A i \in 1..Len(llm_requests) :
        /\ ~contains_pii(llm_requests[i].text)
        /\ anonymize_text(llm_requests[i].text) = llm_requests[i].text

(***************************************************************************)
(* ReplyDrafter called on its own (drafting/reply_drafter.py)              *)
(***************************************************************************)

\* Longest text Gemini answers with, in tokens.
MaxReplyLen == 2

\* A text is a sequence of tokens; " " is white space.
ReplyTokens == {" ", "Sure."}
ReplyTexts == UNION {[1..n -> ReplyTokens] : n \in 0..MaxReplyLen}

Reverse(seq) == [i \in 1..Len(seq) |-> seq[Len(seq) + 1 - i]]

RECURSIVE lstrip(_)
\* str.lstrip: the text without its leading white space.
lstrip(text) ==
    IF text # << >> /\ Head(text) = " " THEN lstrip(Tail(text)) ELSE text

\* str.strip: the text without leading and trailing white space.
strip(text) == Reverse(lstrip(Reverse(lstrip(text))))

\* Python's truth value of an Optional[str]: None and "" are falsy.
falsy(value) == value = None \/ value = Some(<< >>)

\* What gemini_client.generate_content does: it raises, it returns a
\* response without a text attribute, or a response with a text.
GeminiResponses ==
    {[kind |-> "raises", text |-> << >>], [kind |-> "no_text", text |-> << >>]}
    \cup {[kind |-> "text", text |-> t] : t \in ReplyTexts}

\* The values of intent.primary_intent followed.
PrimaryIntents ==
    {"question", "request", "meeting", "complaint", "default", "action", "legal", ""}

\* The subjects followed: a subject is a list of words.
ReplySubjects == {<< >>, <<"Hello">>, <<"Re:", "Hello">>, <<"RE:", "Hello">>}

\* The fixed template texts (lines 150-174), each as one token.
TEMPLATE_QUESTION ==
    <<"Thank you for your email. I've received your question and will review it shortly. ...">>
TEMPLATE_REQUEST ==
    <<"Thank you for reaching out. I've noted your request and will review it shortly. ...">>
TEMPLATE_MEETING ==
    <<"Thank you for your message. I'll check my availability and get back to you shortly. ...">>
TEMPLATE_COMPLAINT ==
    <<"Thank you for bringing this to my attention. I understand your concerns ...">>
TEMPLATE_DEFAULT ==
    <<"Thank you for your email. I've received your message and will respond accordingly. ...">>

\* The dictionary 'templates' of _generate_template_response.
templates ==
    [question  |-> TEMPLATE_QUESTION,
     request   |-> TEMPLATE_REQUEST,
     meeting   |-> TEMPLATE_MEETING,
     complaint |-> TEMPLATE_COMPLAINT,
     default   |-> TEMPLATE_DEFAULT]

\* The template lookup with the key ignored.
generate_template_response_default_only(primary_intent) == templates["default"]

\* ReplyDrafter._generate_template_response
generate_template_response(primary_intent) ==
    LET key == IF primary_intent \in DOMAIN templates THEN primary_intent ELSE "default"
    IN templates[key]

\* ReplyDrafter.__init__: use_gemini and whether gemini_client is set.
ReplyDrafter_init(enabled, has_key, configure_ok) ==
    LET use_gemini == enabled /\ has_key
    IN [use_gemini    |-> use_gemini /\ configure_ok,
        gemini_client |-> use_gemini /\ configure_ok]

\* ReplyDrafter._generate_with_gemini: the stripped text, None without a
\* client, when the call raises and when the response holds no text.
ReplyDrafter_generate_with_gemini(self, gemini_response) ==
    IF ~self.gemini_client THEN None
    ELSE IF gemini_response.kind = "raises" THEN None
    ELSE IF gemini_response.kind = "text" /\ gemini_response.text # << >>
         THEN Some(strip(gemini_response.text))
         ELSE None

\* str.lower for the words of a subject.
lower(word) == IF word \in {"Re:", "RE:", "re:"} THEN "re:" ELSE word

\* ReplyDrafter._create_reply_subject
create_reply_subject(original_subject) ==
    IF original_subject # << >> /\ lower(Head(original_subject)) = "re:"
    THEN original_subject
    ELSE <<"Re:">> \o original_subject

\* ReplyDrafter.draft_reply: the DraftReply returned (created_at left out),
\* None when no body could be produced.
ReplyDrafter_draft_reply(self, subject, sender, primary_intent, gemini_response) ==
    LET generated  == IF self.use_gemini
                      THEN ReplyDrafter_generate_with_gemini(self, gemini_response)
                      ELSE None
        draft_body == IF falsy(generated)
                      THEN Some(generate_template_response(primary_intent))
                      ELSE generated
    IN  IF falsy(draft_body) THEN None
        ELSE Some([subject           |-> create_reply_subject(subject),
                   body              |-> draft_body[1],
                   recipients        |-> <<sender>>,
                   cc                |-> << >>,
                   tone              |-> "professional",
                   preserves_tone    |-> TRUE,
                   requires_approval |-> TRUE])

DrafterInit ==
    /\ \E enabled \in BOOLEAN, has_key \in BOOLEAN, configure_ok \in BOOLEAN :
          drafter = Some(ReplyDrafter_init(enabled, has_key, configure_ok))
    /\ drafted = None
    /\ risk_checked = None
    /\ llm_answer = None
    /\ clock = 0
    /\ scoring_input = None
    /\ scored = None
    /\ pc = "idle"
    /\ inbox = << >>
    /\ newest_first = FALSE
    /\ scopes = {}
    /\ llm = << >>
    /\ operating_context = None
    /\ emails = << >>
    /\ batch_emails = << >>
    /\ batch_errors = << >>
    /\ fault = None
    /\ response = None
    /\ slack_client = None
    /\ notion_client = None
    /\ notifications = << >>
    /\ GraphIdle
    /\ mailbox = << >>
    /\ send_log = << >>
    /\ llm_requests = << >>

\* One call drafter.draft_reply(metadata, intent).
DraftReplyCall ==
    /\ \E subject \in ReplySubjects, sender \in Senders, primary_intent \in PrimaryIntents,
          gemini_response \in GeminiResponses :
          drafted' = Some([subject         |-> subject,
                           sender          |-> sender,
                           primary_intent  |-> primary_intent,
                           gemini_response |-> gemini_response,
                           result |-> ReplyDrafter_draft_reply(drafter[1], subject, sender,
                                                               primary_intent, gemini_response)])
    /\ UNCHANGED <<drafter, risk_checked, scoreVars, llm_answer>>
    /\ UNCHANGED <<agentVars, graphVars, mailbox, send_log, llm_requests>>

DrafterNext == DraftReplyCall

SpecDrafter == DrafterInit /\ [][DrafterNext]_vars

\* The call got no usable text from the model: Gemini is disabled, the call
\* raised, or the answer held no text or white space only.
NoUsableText(call) ==
    \/ ~drafter[1].use_gemini
    \/ call.gemini_response.kind \in {"raises", "no_text"}
    \/ \A i \in 1..Len(call.gemini_response.text) : call.gemini_response.text[i] = " "

\* C11: draft_reply returns a DraftReply with a non-empty body for every
\* input; when Gemini is disabled, raises or answers with nothing, the body
\* is the fixed template of the primary intent (question, request, meeting,
\* complaint, default for any other) and the draft requires approval.
C11_TemplateFallback ==
    drafted # None =>
        LET call == drafted[1]
        IN /\ call.result # None
           /\ call.result[1].body # << >>
           /\ NoUsableText(call) =>
                 /\ call.result[1].requires_approval
                 /\ call.result[1].body =
                       CASE call.primary_intent = "question"  -> TEMPLATE_QUESTION
                         [] call.primary_intent = "request"   -> TEMPLATE_REQUEST
                         [] call.primary_intent = "meeting"   -> TEMPLATE_MEETING
                         [] call.primary_intent = "complaint" -> TEMPLATE_COMPLAINT
                         [] OTHER                             -> TEMPLATE_DEFAULT

\* Gemini was enabled and answered with white space only for a complaint:
\* the draft holds the complaint template.
C11_Witness ==
    /\ drafted # None
    /\ drafter[1].use_gemini
    /\ drafted[1].gemini_response = [kind |-> "text", text |-> <<" ", " ">>]
    /\ drafted[1].primary_intent = "complaint"
    /\ drafted[1].result # None
    /\ drafted[1].result[1].body = TEMPLATE_COMPLAINT

(***************************************************************************)
(* ReplyAllHandler.block_if_risky called on its own                        *)
(***************************************************************************)

\* Longest "to" list of a draft handed to block_if_risky; cc holds one
\* address less.
MaxRecipients == 2

\* Internal addresses, external ones, and one without a domain.
DraftAddresses ==
    {"alice@corp.example", "bob@partner.example", "dave@partner.example", "undisclosed"}

\* Replies to everyone of a long thread: the first addresses of the staff
\* followed by the first addresses of the partners.
LongRecipientLists ==
    {SubSeq(StaffList, 1, i) \o SubSeq(PartnerList, 1, e) :
        i \in 0..Len(StaffList), e \in 0..Len(PartnerList)}

\* The emails handed to block_if_risky: a processed email with a category,
\* flags recorded by earlier guardrails and, possibly, a draft.
RiskEmails ==
    LET base == create_processed_email(
                    [message_id |-> 1, sender |-> ExternalSender, date |-> 1,
                     content |-> [spam_pattern |-> FALSE, asks_action |-> TRUE,
                                  asks_question |-> FALSE, legal_terms |-> FALSE,
                                  finance_terms |-> FALSE, meeting |-> FALSE,
                                  body_pii |-> FALSE, is_vip |-> FALSE,
                                  score |-> 50]])
        pii  == SecurityFlag("pii_detected", "high", FALSE)
        tone == SecurityFlag("tone_violation", "medium", FALSE)
        drafts == {None} \cup
                  {<<[body |-> "template", recipients |-> to, cc |-> cc,
                      requires_approval |-> FALSE, draft_id |-> None]>> :
                      to \in UNION {[1..n -> DraftAddresses] : n \in 0..MaxRecipients},
                      cc \in UNION {[1..n -> DraftAddresses] : n \in 0..(MaxRecipients - 1)}}
                  \cup
                  {<<[body |-> "template", recipients |-> to, cc |-> << >>,
                      requires_approval |-> FALSE, draft_id |-> None]>> :
                      to \in LongRecipientLists}
    IN {[base EXCEPT !.metadata = [recipients |-> original, cc |-> << >>] @@ @,
                     !.category = c, !.security_flags = f, !.draft_reply = d] :
           original \in {<<"alice@corp.example">>, StaffList \o <<"bob@partner.example">>},
           c \in {"action", "legal", "informational"},
           f \in {<< >>, <<pii>>, <<tone>>, <<tone, pii>>, <<pii, tone>>},
           d \in drafts}

RiskInit ==
    /\ risk_checked = None
    /\ llm_answer = None
    /\ drafter = None
    /\ drafted = None
    /\ clock = 0
    /\ scoring_input = None
    /\ scored = None
    /\ pc = "idle"
    /\ inbox = << >>
    /\ newest_first = FALSE
    /\ scopes = {}
    /\ llm = << >>
    /\ operating_context = None
    /\ emails = << >>
    /\ batch_emails = << >>
    /\ batch_errors = << >>
    /\ fault = None
    /\ response = None
    /\ slack_client = None
    /\ notion_client = None
    /\ notifications = << >>
    /\ GraphIdle
    /\ mailbox = << >>
    /\ send_log = << >>
    /\ llm_requests = << >>

\* One call reply_all_handler.block_if_risky(email).  The handler keeps
\* nothing between calls, so the result of a call depends on its email only
\* and one call is followed in a run.
BlockIfRiskyCall ==
    /\ risk_checked = None
    /\ \E email \in RiskEmails :
          risk_checked' = Some([email |-> email, result |-> block_if_risky(email)])
    /\ UNCHANGED <<drafter, drafted, scoreVars, llm_answer>>
    /\ UNCHANGED <<agentVars, graphVars, mailbox, send_log, llm_requests>>

RiskNext == BlockIfRiskyCall

SpecReplyAll == RiskInit /\ [][RiskNext]_vars

\* The draft of the email goes, in to or cc, to an address outside the
\* allowed domains.
HasExternalRecipient(email) ==
    /\ email.draft_reply # None
    /\ \E a \in Range(email.draft_reply[1].recipients \o email.draft_reply[1].cc) :
          extract_domain(a) \notin ALLOWED_DOMAINS

\* C14: for an email with a draft, a pii_detected flag and an external
\* address among the draft's to and cc, block_if_risky appends a
\* reply_all_risk flag that blocks sending, keeps the flags it found and sets
\* is_blocked.
C14_PiiToExternalBlocks ==
    risk_checked # None =>
        LET email  == risk_checked[1].email
            result == risk_checked[1].result
            n      == Len(email.security_flags)
        IN (has_flag(email, "pii_detected") /\ HasExternalRecipient(email)) =>
              /\ result.is_blocked
              /\ Len(result.security_flags) = n + 1
              /\ SubSeq(result.security_flags, 1, n) = email.security_flags
              /\ result.security_flags[n + 1].flag_type = "reply_all_risk"
              /\ result.security_flags[n + 1].blocks_sending

\* block_if_risky blocked a draft on an ordinary category that goes to one
\* external address, with an internal address in cc, because of PII.
C14_Witness ==
    /\ risk_checked # None
    /\ risk_checked[1].email.category = "action"
    /\ has_flag(risk_checked[1].email, "pii_detected")
    /\ risk_checked[1].email.draft_reply # None
    /\ risk_checked[1].email.draft_reply[1].recipients = <<"bob@partner.example">>
    /\ risk_checked[1].email.draft_reply[1].cc = <<"alice@corp.example">>
    /\ risk_checked[1].result.is_blocked
    /\ risk_checked[1].result.security_flags[2].severity = "critical"

(***************************************************************************)
(* Intent scanning and priority scoring (app/classification)               *)
(***************************************************************************)

\* Hours the wall clock advances in one run.
MaxClock == 2

\* A subject or a body is a list of phrases, joined by spaces.  The phrases
\* followed: three low-priority indicators, the urgency keywords of weight 1,
\* 2, 8 and 11, an action phrase and a complaint keyword.
Phrases ==
    {"fyi", "newsletter", "no action required", "no rush", "when you can",
     "urgent", "emergency", "please", "complaint"}

PhraseTexts == {<< >>} \cup {<<p>> : p \in Phrases}

\* Python's 'keyword in phrase' for the phrases followed: a phrase holds
\* itself, "when you can" holds the question word "when ", and "no action
\* required" holds the urgency keyword and action phrase "action required".
occurs(keyword, phrase) ==
    \/ keyword = phrase
    \/ keyword = "when " /\ phrase = "when you can"
    \/ keyword = "action required" /\ phrase = "no action required"

\* Python's 'keyword in text'.
contains(text, keyword) == \E i \in 1..Len(text) : occurs(keyword, text[i])

\* Config.LOW_PRIORITY_INDICATORS and Config.URGENCY_KEYWORDS: the entries
\* that occur in the phrases followed.
LOW_PRIORITY_INDICATORS == {"fyi", "newsletter", "no action required"}

URGENCY_KEYWORDS ==
    [k \in {"emergency", "urgent", "action required", "when you can", "no rush"} |->
        CASE k = "emergency"       -> 11
          [] k = "urgent"          -> 8
          [] k = "action required" -> 6
          [] k = "when you can"    -> 2
          [] k = "no rush"         -> 1]

\* IntentScanner.scan, lines 33-39: what one urgency keyword adds; int(w * 1.5)
\* is the integer part of 3w/2.
keyword_score(keyword, subject, text) ==
    IF contains(subject, keyword) THEN (URGENCY_KEYWORDS[keyword] * 3) \div 2
    ELSE IF contains(text, keyword) THEN URGENCY_KEYWORDS[keyword]
    ELSE 0

RECURSIVE keywords_score(_, _, _)
keywords_score(keywords, subject, text) ==
    IF keywords = {} THEN 0
    ELSE LET k == CHOOSE x \in keywords : TRUE
         IN keyword_score(k, subject, text) + keywords_score(keywords \ {k}, subject, text)

Max(a, b) == IF a >= b THEN a ELSE b
Min(a, b) == IF a <= b THEN a ELSE b

\* IntentScanner.scan.  The other keyword lists (response time, high
\* priority, time sensitive, follow-up, legal, finance, it, hr, meeting,
\* invitation, negative words, business impact, strong verbs) hold nothing
\* that occurs in the phrases followed.
scan(subject, body) ==
    LET text == subject \o body
        low_pri_found == Cardinality({i \in LOW_PRIORITY_INDICATORS : contains(text, i)})
        detected == (IF low_pri_found > 0 THEN {"low_priority_indicator"} ELSE {})
                    \cup {k \in DOMAIN URGENCY_KEYWORDS : contains(text, k)}
        complaint == contains(text, "complaint")
        urgency_score == keywords_score(DOMAIN URGENCY_KEYWORDS, subject, text)
                         - (low_pri_found * 5)
                         + (IF complaint THEN 10 ELSE 0)
    IN [intents           |-> IF complaint THEN {"complaint"} ELSE {},
        urgency_keywords  |-> detected,
        urgency_score     |-> Max(0, Min(urgency_score, 35)),
        action_required   |-> contains(text, "please") \/ contains(text, "action required"),
        question_detected |-> contains(text, "when "),
        is_follow_up      |-> FALSE]

\* PriorityScorer._score_sender
score_sender(classification) ==
    IF classification.is_vip THEN 40
    ELSE CASE classification.sender_type = "vip"      -> 40
           [] classification.sender_type = "team"     -> 30
           [] classification.sender_type = "customer" -> 25
           [] classification.sender_type = "vendor"   -> 15
           [] classification.sender_type = "unknown"  -> 5
           [] classification.sender_type = "spam"     -> 0
           [] OTHER                                   -> 5

\* PriorityScorer._score_action
score_action(intent) ==
    Min((IF intent.action_required THEN 8 ELSE 0)
        + (IF intent.question_detected THEN 4 ELSE 0)
        + (IF intent.action_required /\ intent.question_detected THEN 3 ELSE 0)
        + (IF intent.is_follow_up THEN 3 ELSE 0), 15)

\* PriorityScorer._score_age: datetime.now() is the wall clock 'now'.
score_age(email_date, now) ==
    IF email_date = None THEN 0
    ELSE LET age == now - email_date[1]
         IN IF age < 1 THEN 10
            ELSE IF age < 4 THEN 8
            ELSE IF age < 24 THEN 5
            ELSE IF age < 72 THEN 2
            ELSE 0

\* PriorityScorer._score_thread; no subject followed starts with re: or fwd:,
\* names an attachment or is longer than 50 characters.
score_thread(metadata) ==
    Min((IF metadata.recipients # << >> THEN 3 ELSE 0)
        + (IF metadata.has_attachments THEN 4 ELSE 0), 15)

\* PriorityScorer._score_category, for the one intent followed.
score_category(intent) ==
    Min((IF "complaint" \in intent.intents
         THEN 18 + (IF intent.urgency_score > 10 THEN 2 ELSE 0) ELSE 0), 20)

\* PriorityScorer._score_business_context
score_business_context(metadata) ==
    LET text == metadata.subject \o metadata.body
    IN Max(-5, Min((IF contains(text, "newsletter") THEN -5 ELSE 0), 10))

\* int(score * 1.15) in double arithmetic: the integer part of 115*score/100,
\* except that 100 * 1.15 is 114.99999999999999.
boost(score) == IF score = 100 THEN 114 ELSE (score * 115) \div 100

\* PriorityScorer._determine_level
determine_level(score) ==
    IF score >= 75 THEN "high"
    ELSE IF score >= 50 THEN "medium"
    ELSE IF score >= 30 THEN "low"
    ELSE "not_required"

\* PriorityScorer.calculate_score, the wall clock reading 'now'.
calculate_score(metadata, classification, intent, now) ==
    LET s0 == score_sender(classification)
        s1 == IF "complaint" \in intent.intents THEN Max(s0, 25) ELSE s0
        sender_score ==
            IF /\ intent.urgency_keywords = {}
               /\ ~intent.action_required
               /\ "complaint" \notin intent.intents
               /\ "invitation" \notin intent.intents
            THEN Min(s1, 20) ELSE s1
        category_score == score_category(intent)
        total == sender_score
                 + Min(intent.urgency_score, 35)
                 + score_action(intent)
                 + score_age(metadata.date, now)
                 + score_thread(metadata)
                 + category_score
                 + score_business_context(metadata)
        t1 == IF intent.urgency_score >= 18 THEN Max(total, 50) ELSE total
        t2 == IF intent.urgency_score >= 25 THEN Max(t1, 70) ELSE t1
        high_priority_signals ==
            (IF intent.urgency_score >= 15 THEN 1 ELSE 0)
            + (IF intent.action_required /\ intent.question_detected THEN 1 ELSE 0)
            + (IF sender_score >= 30 THEN 1 ELSE 0)
            + (IF "complaint" \in intent.intents \/ "legal" \in intent.intents THEN 1 ELSE 0)
            + (IF category_score >= 15 THEN 1 ELSE 0)
        t3 == IF high_priority_signals >= 3 THEN boost(t2) ELSE t2
        score == Max(0, Min(150, t3))
    IN [score |-> score, priority_level |-> determine_level(score)]

\* The sender classes handed to calculate_score.
Classifications ==
    {[is_vip |-> TRUE, sender_type |-> "vip"]}
    \cup {[is_vip |-> FALSE, sender_type |-> t] :
             t \in {"team", "customer", "vendor", "unknown", "spam"}}

\* The dates of the emails, in hours before the start of the run.
EmailDates == {None, Some(0), Some(-3), Some(-23), Some(-71)}

\* The EmailMetadata objects and sender classes PriorityScorer.calculate_score
\* can be called with: the method is public and takes any metadata.
ScoringInputs ==
    [subject : PhraseTexts, body : PhraseTexts, date : EmailDates,
     recipients : {<< >>, <<"me@corp.example">>}, has_attachments : BOOLEAN,
     classification : Classifications]

\* classify_node, lines 23-41 (run_startup_scan, lines 60-67, alike): the
\* metadata built for an email of the mailbox is stamped with the time of the
\* call, and holds no recipients and no attachments.
classify_metadata(m, now) ==
    [m EXCEPT !.date = Some(now), !.recipients = << >>, !.has_attachments = FALSE]

\* The arguments of the calls followed are drawn; no call has been made.
ScoreInit ==
    /\ clock = 0
    /\ scoring_input \in {Some(x) : x \in ScoringInputs}
    /\ scored = None
    /\ drafter = None
    /\ drafted = None
    /\ risk_checked = None
    /\ llm_answer = None
    /\ pc = "idle"
    /\ inbox = << >>
    /\ newest_first = FALSE
    /\ scopes = {}
    /\ llm = << >>
    /\ operating_context = None
    /\ emails = << >>
    /\ batch_emails = << >>
    /\ batch_errors = << >>
    /\ fault = None
    /\ response = None
    /\ slack_client = None
    /\ notion_client = None
    /\ notifications = << >>
    /\ GraphIdle
    /\ mailbox = << >>
    /\ send_log = << >>
    /\ llm_requests = << >>

\* Time passes.
Tick ==
    /\ clock < MaxClock
    /\ clock' = clock + 1
    /\ UNCHANGED <<scoring_input, scored, drafter, drafted, risk_checked, llm_answer>>
    /\ UNCHANGED <<agentVars, graphVars, mailbox, send_log, llm_requests>>

\* A caller scans the text of the metadata and calls
\* PriorityScorer.calculate_score(metadata, classification, intent).
ScoreCall ==
    /\ LET m == scoring_input[1]
           intent == scan(m.subject, m.body)
       IN scored' = Some([caller |-> "direct",
                          input  |-> m,
                          now    |-> clock,
                          intent |-> intent,
                          result |-> calculate_score(m, m.classification, intent, clock)])
    /\ UNCHANGED <<clock, scoring_input, drafter, drafted, risk_checked, llm_answer>>
    /\ UNCHANGED <<agentVars, graphVars, mailbox, send_log, llm_requests>>

\* classify_node, lines 23-46, for one email with the subject, the snippet
\* and the sender of the metadata drawn: the metadata is built, the email is
\* scanned and scored.
ClassifyCall ==
    /\ LET m == classify_metadata(scoring_input[1], clock)
           intent == scan(m.subject, m.body)
       IN scored' = Some([caller |-> "classify_node",
                          input  |-> m,
                          now    |-> clock,
                          intent |-> intent,
                          result |-> calculate_score(m, m.classification, intent, clock)])
    /\ UNCHANGED <<clock, scoring_input, drafter, drafted, risk_checked, llm_answer>>
    /\ UNCHANGED <<agentVars, graphVars, mailbox, send_log, llm_requests>>

ScoreNext == Tick \/ ScoreCall \/ ClassifyCall

SpecPriority == ScoreInit /\ [][ScoreNext]_vars

\* C15: calculate_score is deterministic: a call with the metadata,
\* classification and intent of the call before it returns the same score
\* and level, however much later it is made.
C15_ScoreDeterministic ==
    [][(scored # None /\ scored' # None /\ scored'[1].input = scored[1].input
                                         /\ scored'[1].intent = scored[1].intent)
        => scored'[1].result = scored[1].result]_vars

\* C16: the level of every score is the step function of the threshold
\* table HIGH >= 70, MEDIUM >= 50, LOW >= 30, else NOT_REQUIRED.
C16_LevelThresholds ==
    scored # None =>
        LET r == scored[1].result
        IN r.priority_level =
              IF r.score >= 70 THEN "high"
              ELSE IF r.score >= 50 THEN "medium"
              ELSE IF r.score >= 30 THEN "low"
              ELSE "not_required"

\* C17: every score calculate_score returns is an integer from 0 to 100.
C17_ScoreWithin0And100 ==
    scored # None => scored[1].result.score \in 0..100

\* C18: adding a low-priority indicator to the body of the email scored, all
\* else equal, does not give a higher final score, whatever the sender.
C18_LowIndicatorNeverRaises ==
    scored # None =>
        \A indicator \in LOW_PRIORITY_INDICATORS :
            LET m  == scored[1].input
                m2 == [m EXCEPT !.body = @ \o <<indicator>>]
            IN calculate_score(m2, m2.classification, scan(m2.subject, m2.body),
                               scored[1].now).score
                  <= scored[1].result.score

\* C19: an urgency keyword found in the subject adds strictly more to the
\* urgency score than the same keyword found in the body only.
C19_SubjectWeighsMore ==
    scored # None =>
        \A keyword \in DOMAIN URGENCY_KEYWORDS :
            contains(scored[1].input.subject, keyword) =>
                keyword_score(keyword, scored[1].input.subject,
                              scored[1].input.subject \o scored[1].input.body)
                    > keyword_score(keyword, << >>, <<keyword>>)

\* ---------------------------------------------------------------------
\* draft_node and the adapters behind call_llm
\* ---------------------------------------------------------------------

\* What a language model answers: a sentence or nothing, with or without
\* white space around it.
AnswerTexts ==
    {pre \o body \o post : pre \in {<< >>, <<" ">>},
                           body \in {<< >>, <<"Thanks, noted.">>},
                           post \in {<< >>, <<" ">>}}

\* How call_gemini ends: it returns response.text, or generate_content
\* raises a ClientError (quota, rate limit) or another exception.
GeminiOutcomes ==
    {[kind |-> "text", text |-> t] : t \in AnswerTexts}
    \cup {[kind |-> k, text |-> << >>] : k \in {"client_error", "exception"}}

\* How the request of call_ollama ends: status 200 with a "response", a
\* status other than 200, a body with an "error", a body with neither, or
\* an exception (no connection, time-out, a body that is no JSON).
OllamaOutcomes ==
    {[kind |-> "response", text |-> t] : t \in AnswerTexts}
    \cup {[kind |-> k, text |-> << >>] :
              k \in {"http_error", "error", "unexpected", "exception"}}

\* call_ollama: every failure is answered with a JSON classification.
call_ollama(outcome) ==
    CASE outcome.kind = "response" -> outcome.text
      [] outcome.kind = "http_error" ->
            <<"{\"priority\":\"MEDIUM\",\"category\":\"FYI\",\"intent\":\"WAIT\",\"confidence\":0.2,\"reasoning\":\"Ollama HTTP error\"}">>
      [] outcome.kind = "error" ->
            <<"{\"priority\":\"MEDIUM\",\"category\":\"FYI\",\"intent\":\"WAIT\",\"confidence\":0.2,\"reasoning\":\"Ollama error: model not found\"}">>
      [] outcome.kind = "unexpected" ->
            <<"{\"priority\":\"MEDIUM\",\"category\":\"FYI\",\"intent\":\"WAIT\",\"confidence\":0.2,\"reasoning\":\"Ollama returned unexpected payload\"}">>
      [] OTHER ->
            <<"{\"priority\":\"MEDIUM\",\"category\":\"FYI\",\"intent\":\"WAIT\",\"confidence\":0.1,\"reasoning\":\"Ollama exception occurred\"}">>

\* The texts call_ollama returns when its request has failed.
OllamaErrorPayloads ==
    {call_ollama(o)[1] : o \in {x \in OllamaOutcomes : x.kind # "response"}}

\* call_llm, lines 18-26: what Gemini returned, or what call_ollama returns
\* once Gemini has raised; 'called' lists the adapters in the order used.
call_llm_returns(gemini, ollama) ==
    IF gemini.kind = "text"
    THEN [called |-> <<"gemini">>, text |-> gemini.text]
    ELSE [called |-> <<"gemini", "ollama">>, text |-> call_ollama(ollama)]

\* The string of a text of at most one sentence.
join(text) == IF text = << >> THEN "" ELSE text[1]

\* draft_node, lines 84-101: the answer of call_llm is stripped and becomes
\* the draft, the fallback text taking the place of an empty answer.
DraftNodeCall ==
    /\ node = "draft"
    /\ \E gemini \in GeminiOutcomes, ollama \in OllamaOutcomes :
          LET raw_response == call_llm_returns(gemini, ollama)
          IN  /\ llm_answer' = Some([gemini |-> gemini.kind,
                                     ollama |-> IF gemini.kind = "text" THEN "not called"
                                                ELSE ollama.kind,
                                     called |-> raw_response.called,
                                     text   |-> raw_response.text])
              /\ state' = channels(draft_node(state, join(strip(raw_response.text))))
    /\ node' = "review"
    /\ prev_node' = node
    /\ UNCHANGED <<reviewed, last_send, send_count, mailbox, send_log, llm_requests,
                 memory_search>>
    /\ UNCHANGED <<agentVars, drafter, drafted, risk_checked, scoreVars>>

\* graph.py: draft_node runs in the states the graph reaches it in, through
\* memory_retrieve, input_agent, fetch, classify and inbox_review (and
\* summarize, back to inbox_review).
DraftNodeNext ==
    \/ MemoryRetrieve
    \/ InputAgent
    \/ Fetch
    \/ Classify
    \/ InboxReview
    \/ Summarize
    \/ DraftNodeCall

SpecDraftNode == GraphInit /\ [][DraftNodeNext]_vars

\* Gemini has raised and the request of call_ollama has failed as well.
BothAdaptersFailed ==
    /\ llm_answer # None
    /\ llm_answer[1].gemini \in {"client_error", "exception"}
    /\ llm_answer[1].ollama \in {"http_error", "error", "unexpected", "exception"}

\* C20: when the call of Gemini fails and the call of Ollama fails too (HTTP
\* error, error payload or exception), draft_node leaves the fixed fallback
\* text in state.draft, and never an error payload of the adapter.
C20_FallbackWhenBothFail ==
    (node = "review" /\ BothAdaptersFailed) =>
        /\ state.draft = Some(DRAFT_FALLBACK)
        /\ state.draft[1] \notin OllamaErrorPayloads

\* ---------------------------------------------------------------------
\* The interactive graph: delivery, failures of the intent call, the last
\* node, the nodes that are not wired, the compose memory
\* ---------------------------------------------------------------------

\* C21: when the user has chosen Send, the Gmail service is obtained and to,
\* cc and bcc are pairwise disjoint, the execution of send_node hands the
\* approved draft to the mailbox exactly once before the graph moves on.
C21_ApprovedDraftSentOnce ==
    [][(node = "send" /\ state.draft # None
                      /\ state.recipient # None /\ state.recipient[1].to # << >>
                      /\ last_send' # None /\ last_send'[1].called)
        => /\ Len(mailbox') = Len(mailbox) + 1
           /\ mailbox'[Len(mailbox')].body = state.draft[1]]_vars

\* C22: when interpret_intent raises, input_agent_node completes with mode
\* UNKNOWN, and the graph routes to memory_write.
C22_IntentFailureHandled ==
    node = "input_agent" =>
        \A answered \in IntentAnalyses :
            LET r == input_agent_step(state, TRUE, answered)
            IN /\ r.state.mode = "UNKNOWN"
               /\ r.next = "memory_write"

\* C23: a run of the graph that reaches END has executed memory_write_node
\* exactly once, as its last node: END is entered from memory_write only,
\* memory_write leads nowhere but to END, and nothing runs after END.
C23_MemoryWriteOnceAndLast ==
    /\ [](node = "END" => prev_node = "memory_write")
    /\ [][/\ node' = "END" => node = "memory_write"
          /\ node = "memory_write" => node' = "END"
          /\ node # "END"]_vars

\* A run has ended after a review in which the user chose Send, an
\* execution of send_node and a return to the list of emails.
C23_Witness ==
    /\ node = "END"
    /\ prev_node = "memory_write"
    /\ send_count > 0
    /\ reviewed # None
    /\ state.user_action = "DONE"

\* build_graph, lines 26-42: the nodes added to the graph.
Nodes ==
    {"entry", "input_agent", "fetch", "classify", "inbox_review", "summarize",
     "extract", "risk", "approval", "draft", "compose", "review", "send",
     "memory_write", "memory_retrieve"}

\* build_graph, line 46.
entry_point == "memory_retrieve"

\* build_graph, lines 47-127: the edges and the targets of the conditional
\* edges of the interactive flow.
interactive_edges ==
    {<<"memory_retrieve", "input_agent">>,
     <<"input_agent", "fetch">>, <<"input_agent", "compose">>,
     <<"input_agent", "memory_write">>,
     <<"fetch", "classify">>, <<"classify", "inbox_review">>,
     <<"inbox_review", "summarize">>, <<"inbox_review", "draft">>,
     <<"inbox_review", "memory_write">>,
     <<"summarize", "inbox_review">>,
     <<"compose", "review">>, <<"draft", "review">>,
     <<"review", "send">>, <<"review", "compose">>, <<"review", "inbox_review">>,
     <<"review", "memory_write">>,
     <<"send", "inbox_review">>, <<"send", "memory_write">>,
     <<"memory_write", "END">>}

\* build_graph, lines 131-133: the edges of the linear flow.
legacy_edges ==
    {<<"extract", "risk">>, <<"risk", "approval">>, <<"approval", "draft">>}

\* The edges with the linear flow entered after summarize.
edges_with_summarize_to_extract ==
    interactive_edges \cup legacy_edges \cup {<<"summarize", "extract">>}

\* build_graph: every edge of the compiled graph.
Edges == interactive_edges \cup legacy_edges

RECURSIVE reach(_)
\* The nodes a run can get to from the nodes of 'from'.
reach(from) ==
    LET next == from \cup {e[2] : e \in {x \in Edges : x[1] \in from}}
    IN  IF next = from THEN from ELSE reach(next)

\* The nodes a run started at the entry point can execute.
Reachable == reach({entry_point})

\* risk_node, lines 16-34: the flags it can write.
risk_node_flags ==
    {"LEGAL_COMMITMENT", "FINANCIAL_COMMITMENT", "EXTERNAL_SENDER",
     "AMBIGUOUS_DEADLINE", "PII_DETECTED"}

\* approval_node: the approval status it writes for the flags it finds.
approval_node(risk_flags) ==
    IF risk_flags # << >> THEN "REQUIRED" ELSE "NOT_REQUIRED"

\* draft_node, lines 10-11: the values it reads, with their defaults.
draft_node_reads(s) ==
    [risk_flags      |-> IF s.risk_flags = None THEN << >> ELSE s.risk_flags[1],
     approval_status |-> IF s.approval_status = None THEN "REQUIRED"
                         ELSE s.approval_status[1]]

\* C24: no run started at memory_retrieve executes extract_node, risk_node or
\* approval_node: every step follows an edge of the graph and no path of edges
\* leads from the entry point to them.  Every execution of draft_node
\* therefore reads its defaults, no risk flags and approval_status REQUIRED,
\* and nothing those nodes write.
C24_LegacyNodesNeverRun ==
    /\ [](/\ node \in (Reachable \cup {"crashed"}) \ {"extract", "risk", "approval"}
          /\ Reachable \cap {"extract", "risk", "approval"} = {}
          /\ Reachable \subseteq Nodes \cup {"END"}
          /\ node = "draft" =>
                /\ draft_node_reads(state).risk_flags = << >>
                /\ Range(draft_node_reads(state).risk_flags) \cap risk_node_flags = {}
                /\ draft_node_reads(state).approval_status = "REQUIRED"
                /\ draft_node_reads(state).approval_status # approval_node(<< >>))
    /\ [][node' # "crashed" => <<node, node'>> \in Edges]_vars

\* draft_node is about to run for a second reply of the run, after a review
\* in which the user chose Send and an execution of send_node.
C24_Witness ==
    /\ node = "draft"
    /\ prev_node = "inbox_review"
    /\ send_count > 0
    /\ reviewed # None
    /\ reviewed[1].approval_status = Some("APPROVED")
    /\ state.draft # None

\* C25: in a run whose request is to compose a new email, memory_retrieve_node
\* has searched the compose memory store before compose_node builds the
\* draft.
C25_ComposeMemorySearched ==
    (node = "compose" /\ prev_node = "input_agent" /\ state.mode = "COMPOSE")
        => memory_search = Some("match_compose_memories")

\* ---------------------------------------------------------------------
\* The severity of a reply to all
\* ---------------------------------------------------------------------

\* The severity table: critical for PII with an external recipient; else
\* high for a sensitive category with an external recipient, more than 3
\* external recipients, or a mixed audience with more than 2 external ones;
\* else medium for more than 5 recipients or an original list of more than
\* 10; otherwise none.
SeverityTable(email) ==
    LET draft == email.draft_reply[1]
        all_recipients == draft.recipients \o draft.cc
        n_ext == Cardinality(get_external_recipients(all_recipients))
        n_int == Cardinality(get_internal_recipients(all_recipients))
        n_original == Len(email.metadata.recipients \o email.metadata.cc)
    IN  IF has_flag(email, "pii_detected") /\ n_ext >= 1 THEN "critical"
        ELSE IF \/ email.category \in {"legal", "finance"} /\ n_ext >= 1
                \/ n_ext > 3
                \/ n_int > 0 /\ n_ext > 2
             THEN "high"
        ELSE IF Len(all_recipients) > 5 \/ n_original > 10 THEN "medium"
        ELSE "none"

\* C26: for every email with a draft, the risk level analyze_reply_all_risk
\* computes is the level of the severity table.
C26_RiskLevelIsSeverityTable ==
    (risk_checked # None /\ risk_checked[1].email.draft_reply # None) =>
        analyze_reply_all_risk(risk_checked[1].email)
            = SeverityTable(risk_checked[1].email)

\* The order none < medium < high < critical.
severity_rank(level) ==
    CASE level = "none" -> 0
      [] level = "medium" -> 1
      [] level = "high" -> 2
      [] level = "critical" -> 3

\* C27: while analyze_reply_all_risk evaluates its factors in order the risk
\* level never decreases, so that an email which a factor rates high is
\* blocked by block_if_risky.
C27_RiskLevelNeverDecreases ==
    (risk_checked # None /\ risk_checked[1].email.draft_reply # None) =>
        LET levels == reply_all_risk_levels(risk_checked[1].email)
        IN /\ \A i \in 1..(Len(levels) - 1) :
                  severity_rank(levels[i]) <= severity_rank(levels[i + 1])
           /\ (\E i \in 1..Len(levels) : levels[i] \in {"high", "critical"})
                  => risk_checked[1].result.is_blocked

\* ---------------------------------------------------------------------
\* Floors and reducers of the priority score
\* ---------------------------------------------------------------------

\* C28: for every input with an urgency score of at least 15 the score
\* calculate_score returns is at least 50, so that the level is at least
\* MEDIUM.
C28_UrgencyFloor ==
    (scored # None /\ scored[1].intent.urgency_score >= 15) =>
        /\ scored[1].result.score >= 50
        /\ scored[1].result.priority_level \in {"medium", "high"}

\* EmailAgent._process_email_core_pipeline, lines 346-351: the email needs a
\* reply, and is handed to the drafter, when the scan found an action or a
\* question or the category is ACTION.
requires_reply(intent, category) ==
    intent.action_required \/ intent.question_detected \/ category = "action"

\* C29: an email of a sender who is not a VIP, whose subject and body hold
\* low-priority indicators only, "no action required" among them, is scanned
\* with action_required false, scores at most 20 with level NOT_REQUIRED, and
\* on a category other than ACTION is not marked as requiring a reply.
C29_NoActionRequiredIsNotRequired ==
    LET m == scored[1].input
        text == m.subject \o m.body
    IN (/\ scored # None
        /\ ~m.classification.is_vip
        /\ contains(text, "no action required")
        /\ \A i \in 1..Len(text) : text[i] \in LOW_PRIORITY_INDICATORS) =>
           /\ ~scored[1].intent.action_required
           /\ scored[1].result.score <= 20
           /\ scored[1].result.priority_level = "not_required"
           /\ ~requires_reply(scored[1].intent, "fyi")

\* C30: when the compose node runs with edit instructions and the answer of
\* the language model is no valid JSON, the node returns with subject, draft,
\* recipient and attachments as they were and the edit instructions cleared,
\* and review follows on the same draft.
C30_FailedEditKeepsDraft ==
    (/\ node = "compose"
     /\ state.edit_instructions # None
     /\ state.edit_instructions # Some("")) =>
        \A reply \in ComposeReplies :
            reply.kind \in NotValidJSON =>
                LET r == compose_node_step(state, reply)
                IN /\ r.next = "review"
                   /\ r.state.subject = state.subject
                   /\ r.state.draft = state.draft
                   /\ r.state.recipient = state.recipient
                   /\ r.state.attachments = state.attachments
                   /\ r.state.edit_instructions = None

====
